---- MODULE Spec2Model ----
(***************************************************************************)
(* Model of the DataNautics KNIME finance extension: the four amortization *)
(* schedule nodes (nodes/LoanScheduleFuncs) and the single-value formula   *)
(* nodes (nodes/ExcelLoanFuncs).                                           *)
(*                                                                         *)
(* Numbers.  The code computes in IEEE doubles.  The model computes in     *)
(* exact rationals <<n, d>> (d > 0, lowest terms), extended with the three *)
(* non-finite doubles: <<1, 0>> = +inf, <<-1, 0>> = -inf, <<0, 0>> = NaN.  *)
(* Every "equal within tolerance" of the documentation is therefore an     *)
(* exact equality here; rounding error is outside the model.               *)
(***************************************************************************)
EXTENDS Integers, Sequences, FiniteSets, TLC

(***************************************************************************)
(* Bounds of the model.                                                    *)
(***************************************************************************)
MaxNper == 3

(***************************************************************************)
(* Rational arithmetic (Python float / numpy float64 operators).           *)
(***************************************************************************)
RECURSIVE GCD(_, _)
GCD(a, b) == IF b = 0 THEN a ELSE GCD(b, a % b)

IAbs(x) == IF x < 0 THEN -x ELSE x

Sign(x) == IF x < 0 THEN -1 ELSE IF x > 0 THEN 1 ELSE 0

Norm(n, d) ==
    IF d = 0 THEN <<Sign(n), 0>>
    ELSE LET g == GCD(IAbs(n), IAbs(d))
             s == IF d < 0 THEN -1 ELSE 1
         IN  <<(s * n) \div g, (s * d) \div g>>

R(k) == <<k, 1>>

NaN == <<0, 0>>

IsNaN(a) == a = NaN

IsFinite(a) == a[2] # 0

RSign(a) == Sign(a[1])

RNeg(a) == <<-a[1], a[2]>>

RAbs(a) == <<IAbs(a[1]), a[2]>>

RAdd(a, b) ==
    IF IsNaN(a) \/ IsNaN(b) THEN NaN
    ELSE IF ~IsFinite(a) /\ ~IsFinite(b) THEN (IF a = b THEN a ELSE NaN)
    ELSE IF ~IsFinite(a) THEN a
    ELSE IF ~IsFinite(b) THEN b
    ELSE LET g == GCD(a[2], b[2])
             l == (a[2] \div g) * b[2]
         IN  Norm(a[1] * (l \div a[2]) + b[1] * (l \div b[2]), l)

RSub(a, b) == RAdd(a, RNeg(b))

RMul(a, b) ==
    IF IsNaN(a) \/ IsNaN(b) THEN NaN
    ELSE IF ~IsFinite(a) \/ ~IsFinite(b)
         THEN <<RSign(a) * RSign(b), 0>>
    ELSE LET g1 == GCD(IAbs(a[1]), b[2])
             g2 == GCD(IAbs(b[1]), a[2])
         IN  <<(a[1] \div g1) * (b[1] \div g2), (a[2] \div g2) * (b[2] \div g1)>>

\* x / y of numpy doubles: a zero divisor gives inf or NaN, never an exception.
RDiv(a, b) ==
    IF IsNaN(a) \/ IsNaN(b) THEN NaN
    ELSE IF ~IsFinite(b) THEN (IF IsFinite(a) THEN R(0) ELSE NaN)
    ELSE IF b[1] = 0 THEN <<RSign(a), 0>>
    ELSE RMul(a, Norm(b[2], b[1]))

RECURSIVE RPowNat(_, _)
RPowNat(a, k) == IF k = 0 THEN R(1) ELSE RMul(a, RPowNat(a, k - 1))

\* a ** k for an integer exponent k (negative k: the reciprocal).
RPow(a, k) == IF k >= 0 THEN RPowNat(a, k) ELSE RDiv(R(1), RPowNat(a, -k))

RLt(a, b) == IsFinite(a) /\ IsFinite(b) /\ a[1] * b[2] < b[1] * a[2]

RLeq(a, b) == a = b \/ RLt(a, b)

(***************************************************************************)
(* numpy_financial, as the nodes call it (npf.pmt, npf.ipmt, npf.ppmt).    *)
(* when is 0 (end of period) or 1 (beginning of period).                   *)
(***************************************************************************)
WhenNum(when) == IF when THEN 1 ELSE 0

\* npf.pmt(rate, nper, pv, fv=0, when):
\*   temp = (1 + rate)**nper
\*   fact = nper                              if rate == 0
\*          (1 + rate*when)*(temp - 1)/rate   otherwise
\*   return -(fv + pv*temp)/fact
NpfPmt(rate, n, p, when) ==
    LET temp == RPow(RAdd(R(1), rate), n)
        fact == IF rate = R(0) THEN R(n)
                ELSE RDiv(RMul(RAdd(R(1), RMul(rate, R(WhenNum(when)))),
                               RSub(temp, R(1))), rate)
    IN  RDiv(RNeg(RMul(p, temp)), fact)

\* npf.fv(rate, nper, pmt, pv, when):
\*   -(pv + pmt*nper)                                     if rate == 0
\*   -pv*temp - pmt*(1 + rate*when)/rate*(temp - 1)       otherwise
NpfFv(rate, n, payment, p, when) ==
    IF rate = R(0) THEN RNeg(RAdd(p, RMul(payment, R(n))))
    ELSE LET temp == RPow(RAdd(R(1), rate), n)
         IN  RSub(RNeg(RMul(p, temp)),
                  RMul(RDiv(RMul(payment, RAdd(R(1), RMul(rate, R(WhenNum(when))))),
                            rate),
                       RSub(temp, R(1))))

\* npf.ipmt(rate, per, nper, pv, fv=0, when):
\*   total_pmt = pmt(rate, nper, pv, fv, when)
\*   ipmt = fv(rate, per - 1, total_pmt, pv, when) * rate   (remaining balance * rate)
\*   ipmt[per < 1] = nan
\*   ipmt[when == 1 and per == 1] = 0
\*   ipmt[when == 1 and per > 1] /= (1 + rate)
\* No range check on per against nper: per > nper extrapolates the formula.
NpfIpmt(rate, per, n, p, when) ==
    LET total_pmt == NpfPmt(rate, n, p, when)
        raw == RMul(NpfFv(rate, per - 1, total_pmt, p, when), rate)
    IN  IF per < 1 THEN NaN
        ELSE IF when /\ per = 1 THEN R(0)
        ELSE IF when /\ per > 1 THEN RDiv(raw, RAdd(R(1), rate))
        ELSE raw

\* npf.ppmt(rate, per, nper, pv, fv=0, when) = pmt(...) - ipmt(...)
NpfPpmt(rate, per, n, p, when) ==
    RSub(NpfPmt(rate, n, p, when), NpfIpmt(rate, per, n, p, when))

(***************************************************************************)
(* Node configuration and input table (nodes/utils/scheduleParams.py).     *)
(***************************************************************************)
FrequencyOptions == {"ANNUAL", "QUARTERLY", "MONTHLY"}

InterestTypeOptions == {"SIMPLE", "COMPOUND"}

\* Variant holding the months per period instead of the periods per year.
frequency_multiplier_Months(f) ==
    IF f = "ANNUAL" THEN 12 ELSE IF f = "QUARTERLY" THEN 3 ELSE 1

\* frequency_multiplier = {ANNUAL: 1, QUARTERLY: 4, MONTHLY: 12}[self.frequency]
frequency_multiplier(f) ==
    IF f = "ANNUAL" THEN 1 ELSE IF f = "QUARTERLY" THEN 4 ELSE 12

\* The input table's columns, in table order; rate_column, nper_column and
\* pv_column of the configuration select them by name.
input_columns == <<"Annual_Rate", "Nper", "PV">>

rate_column == "Annual_Rate"

nper_column == "Nper"

pv_column == "PV"

\* Index of a column name in a column list (row[col], df[col]).
ColIndex(cols, name) == CHOOSE k \in 1..Len(cols) : cols[k] = name

Cell(cols, row, name) == row[ColIndex(cols, name)]

\* Values a double column can hold in the model.  The annual rates are the
\* ones whose periodic rate is rational in both interest modes the model
\* draws them in (see RateRepresentable).
AnnualRates == {R(0), R(4)}

NperValues == {NaN, <<3, 2>>} \cup {R(k) : k \in -1..MaxNper}

\* Every emitted amount is linear in the present value, so one positive
\* principal stands for all of them; 0 is the degenerate loan.
PvValues == {R(0), R(1)}

LoanRows == {<<a, n, p>> : a \in AnnualRates, n \in NperValues, p \in PvValues}

\* Batches of one or two loan rows: two rows are what it takes for the
\* per-loan re-initialisation of the running totals to matter.
RowCounts == {1, 2}

Batches == UNION {[1..k -> LoanRows] : k \in RowCounts}

\* Variant rounding up: math.ceil(x) in place of int(x).
IntTrunc_Ceil(a) == 0 - ((0 - a[1]) \div a[2])

\* int(x) of a Python float: truncation toward zero.  (int(nan) raises
\* ValueError; the callers test for it.)
IntTrunc(a) == Sign(a[1]) * (IAbs(a[1]) \div a[2])

\* The k-th root of a non-negative integer, where it is an integer.
RootBases == 0..5

RECURSIVE IPow(_, _)
IPow(y, k) == IF k = 0 THEN 1 ELSE y * IPow(y, k - 1)

HasIntRoot(x, k) == \E y \in RootBases : IPow(y, k) = x

IntRoot(x, k) == CHOOSE y \in RootBases : IPow(y, k) = x

\* x ** (1/k) for a non-negative rational x, where the result is rational.
RRoot(a, k) == Norm(IntRoot(a[1], k), IntRoot(a[2], k))

\* The model draws only configurations whose periodic rate is a rational:
\* (1 + annual_rate) ** (1/frequency_multiplier) must be exact.
RateRepresentable(a, f, t) ==
    \/ t = "SIMPLE"
    \/ LET b == RAdd(R(1), a)
       IN  HasIntRoot(b[1], frequency_multiplier(f)) /\ HasIntRoot(b[2], frequency_multiplier(f))

\* Variant of the compound branch without the final "- 1".
PeriodicRate_GrowthFactor(a, f, t) ==
    IF t = "SIMPLE" THEN RDiv(a, R(frequency_multiplier(f)))
    ELSE RRoot(RAdd(R(1), a), frequency_multiplier(f))

\* if interest_type == SIMPLE: periodic_rate = annual_rate / frequency_multiplier
\* else: periodic_rate = (1 + annual_rate) ** (1/frequency_multiplier) - 1
PeriodicRate(a, f, t) ==
    IF t = "SIMPLE" THEN RDiv(a, R(frequency_multiplier(f)))
    ELSE RSub(RRoot(RAdd(R(1), a), frequency_multiplier(f)), R(1))

(***************************************************************************)
(* The four schedule nodes.  Each execute() is modelled at the grain of    *)
(* its loops: one step reads the next loan row (the statements before the  *)
(* inner loop), one step runs the inner loop's body for one period, one    *)
(* step builds and returns the output table.  The nodes share no state; the *)
(* model runs them one after another on the same input table and the same  *)
(* configuration, keeping each node's returned table in result.            *)
(***************************************************************************)
\* input_table is the input of the single-value formula nodes, df the input
\* of the schedule nodes; each specification leaves the other's input empty.
\* opts, table_m and table_b are the options and the two inputs of the matrix
\* nodes; the other specifications leave them empty.
VARIABLES frequency, interest_type, pmt_type, df, input_table,
          opts, table_m, table_b,
          node, pc, i, loc, all_data, result

vars == <<frequency, interest_type, pmt_type, df, input_table,
          opts, table_m, table_b,
          node, pc, i, loc, all_data, result>>

config == <<frequency, interest_type, pmt_type, df, input_table, opts, table_m, table_b>>

NodeOrder == <<"OpenPPMT", "CUMIPMT", "OpenIPMT", "OpenPMT">>

Nodes == {NodeOrder[k] : k \in 1..Len(NodeOrder)}

FormulaNodes == {"IPMT", "PPMT"}

\* The five single-value nodes of nodes/ExcelLoanFuncs, each named by its
\* result column.  (The CUMIPMT formula node and the CUMIPMT schedule node
\* never run in the same specification.)
ExcelLoanOrder == <<"PMT", "IPMT", "PPMT", "PV", "CUMIPMT">>

ExcelLoanNodes == {ExcelLoanOrder[k] : k \in 1..Len(ExcelLoanOrder)}

\* The four nodes of nodes/matrixOps.
MatrixNodeOrder == <<"MatrixMatrix", "MatrixColumnVector", "MatrixRowVector", "MatrixScalar">>

MatrixNodes == {MatrixNodeOrder[k] : k \in 1..Len(MatrixNodeOrder)}

AllNodes == Nodes \cup FormulaNodes \cup ExcelLoanNodes \cup MatrixNodes

NextNode(n) ==
    LET k == CHOOSE j \in 1..Len(NodeOrder) : NodeOrder[j] = n
    IN  IF k = Len(NodeOrder) THEN "none" ELSE NodeOrder[k + 1]

\* The local variables of execute(), before any row is read.
NoLocals ==
    [nper |-> 0, pv |-> R(0), annual_rate |-> R(0), periodic_rate |-> R(0),
     pmt |-> R(0), remaining_balance |-> R(0), cumulative_interest |-> R(0),
     cumulative_principal |-> R(0), total_interest |-> R(0),
     pmt_amount |-> R(0), total_payments |-> R(0), cumulative_payments |-> R(0),
     period |-> 0]

NoTable == [status |-> "none", columns |-> <<>>, rows |-> <<>>]

\* Operation.ADDITION.name, handle_missing False, no vector column selected.
NoOpts == [operation |-> "ADDITION", handle_missing |-> FALSE, vector_column |-> ""]

\* execute() left by an exception: no table is returned.
Raised(e) == [status |-> e, columns |-> <<>>, rows |-> <<>>]

\* Off-by-one variants of the loop bounds: range(nper) and range(0, nper + 1).
PeriodRange_FromZero(n) == 0..(n - 1)

PeriodRange_ZeroToN(n) == 0..n

\* for period in range(1, nper + 1)
PeriodRange(n) == 1..n

\* Variant without abs(): pmt * nper - pv.
TotalInterest_Signed(payment, n, p) == RSub(RMul(payment, R(n)), p)

\* total_interest = abs(pmt) * nper - pv
TotalInterest(payment, n, p) == RSub(RMul(RAbs(payment), R(n)), p)

\* Variant that leaves the running totals of the previous loan in place:
\* the three assignments of lines 149-151 moved above the outer loop.
LoanLocals_CarriedTotals(row) ==
    LET n == IntTrunc(Cell(input_columns, row, nper_column))
        p == Cell(input_columns, row, pv_column)
        a == Cell(input_columns, row, rate_column)
        r == PeriodicRate(a, frequency, interest_type)
        payment == NpfPmt(r, n, p, pmt_type)
    IN  [NoLocals EXCEPT !.nper = n, !.pv = p, !.annual_rate = a,
                         !.periodic_rate = r, !.pmt = payment,
                         !.remaining_balance =
                             IF i = 1 THEN p ELSE loc.remaining_balance,
                         !.cumulative_interest = loc.cumulative_interest,
                         !.cumulative_principal = loc.cumulative_principal,
                         !.total_interest = TotalInterest(payment, n, p)]

\* nper = int(row[nper_column]); pv = float(row[pv_column]);
\* annual_rate = float(row[rate_column]); periodic_rate = ...;
\* pmt = float(npf.pmt(rate=periodic_rate, nper=nper, pv=pv, when=pmt_type));
\* remaining_balance = pv; cumulative_interest = 0; cumulative_principal = 0;
\* total_interest = abs(pmt) * nper - pv
LoanLocals(row) ==
    LET n == IntTrunc(Cell(input_columns, row, nper_column))
        p == Cell(input_columns, row, pv_column)
        a == Cell(input_columns, row, rate_column)
        r == PeriodicRate(a, frequency, interest_type)
        payment == NpfPmt(r, n, p, pmt_type)
    IN  [NoLocals EXCEPT !.nper = n, !.pv = p, !.annual_rate = a,
                         !.periodic_rate = r, !.pmt = payment,
                         !.remaining_balance = p,
                         !.total_interest = TotalInterest(payment, n, p)]

\* The same statements in the outstanding-payments node, which keeps
\* pmt_amount = abs(pmt); total_payments = pmt_amount * nper;
\* cumulative_payments = 0 instead of the balance and interest totals.
PmtLoanLocals(row) ==
    LET n == IntTrunc(Cell(input_columns, row, nper_column))
        p == Cell(input_columns, row, pv_column)
        a == Cell(input_columns, row, rate_column)
        r == PeriodicRate(a, frequency, interest_type)
        payment == NpfPmt(r, n, p, pmt_type)
    IN  [NoLocals EXCEPT !.nper = n, !.pv = p, !.annual_rate = a,
                         !.periodic_rate = r, !.pmt = payment,
                         !.pmt_amount = RAbs(payment),
                         !.total_payments = RMul(RAbs(payment), R(n))]

\* Variant with the failing row caught and skipped: try / except: continue
\* around the body of the outer loop.
ReadRow_SkipFailed(n, locals) ==
    /\ node = n
    /\ pc = "row"
    /\ i <= Len(df)
    /\ IF IsNaN(Cell(input_columns, df[i], nper_column))
       THEN /\ pc' = "row"
            /\ i' = i + 1
            /\ loc' = loc
       ELSE IF PeriodRange(locals.nper) = {}
            THEN /\ pc' = "row"
                 /\ i' = i + 1
                 /\ loc' = locals
            ELSE /\ pc' = "loop"
                 /\ i' = i
                 /\ loc' = [locals EXCEPT !.period =
                              CHOOSE k \in PeriodRange(locals.nper) :
                                  \A j \in PeriodRange(locals.nper) : k <= j]
    /\ UNCHANGED <<node, all_data, result>>
    /\ UNCHANGED config

\* for _, row in df.iterrows(): the statements up to the inner loop.
\* int(nan) raises ValueError, which leaves execute() without a table.
\* An empty range(1, nper + 1) skips the inner loop: on to the next row.
ReadRow(n, locals) ==
    /\ node = n
    /\ pc = "row"
    /\ i <= Len(df)
    /\ IF IsNaN(Cell(input_columns, df[i], nper_column))
       THEN /\ result' = [result EXCEPT ![n] = Raised("ValueError")]
            /\ node' = NextNode(n)
            /\ pc' = IF NextNode(n) = "none" THEN "done" ELSE "row"
            /\ i' = 1
            /\ loc' = NoLocals
            /\ all_data' = <<>>
       ELSE /\ IF PeriodRange(locals.nper) = {}
               THEN /\ pc' = "row"
                    /\ i' = i + 1
                    /\ loc' = locals
               ELSE /\ pc' = "loop"
                    /\ i' = i
                    /\ loc' = [locals EXCEPT !.period =
                                 CHOOSE k \in PeriodRange(locals.nper) :
                                     \A j \in PeriodRange(locals.nper) : k <= j]
            /\ UNCHANGED <<node, all_data, result>>
    /\ UNCHANGED config

\* One pass of the inner loop's body: all_data.append(new_row), the local
\* variables updated, then the next period or, after the last, the next row.
AppendRow(n, new_row, locals) ==
    /\ node = n
    /\ pc = "loop"
    /\ all_data' = Append(all_data, new_row)
    /\ IF loc.period + 1 \in PeriodRange(loc.nper)
       THEN /\ loc' = [locals EXCEPT !.period = loc.period + 1]
            /\ UNCHANGED <<pc, i>>
       ELSE /\ loc' = locals
            /\ pc' = "row"
            /\ i' = i + 1
    /\ UNCHANGED <<node, result>>
    /\ UNCHANGED config

\* result_df = pd.DataFrame(all_data, columns=output_columns); the dtype
\* loop; return knext.Table.from_pandas(result_df).
ReturnTable(n, columns, rows) ==
    /\ node = n
    /\ pc = "row"
    /\ i > Len(df)
    /\ result' = [result EXCEPT ![n] = [status |-> "ok", columns |-> columns, rows |-> rows]]
    /\ node' = NextNode(n)
    /\ pc' = IF NextNode(n) = "none" THEN "done" ELSE "row"
    /\ i' = 1
    /\ loc' = NoLocals
    /\ all_data' = <<>>
    /\ UNCHANGED config

\* Variant without the sign flip: the column is cast and left as computed.
NegateColumn_CastOnly(columns, rows, name) == rows

\* result_df[col] = result_df[col].astype(np.float64) * -1 on one column.
NegateColumn(columns, rows, name) ==
    [r \in 1..Len(rows) |->
        [c \in 1..Len(columns) |->
            IF columns[c] = name THEN RMul(rows[r][c], R(-1)) ELSE rows[r][c]]]

\* Variant that copies the values execute() parsed (nper as int(...))
\* instead of the row's own values.
InputValues_Parsed(row) ==
    [c \in 1..Len(input_columns) |->
        IF input_columns[c] = nper_column THEN R(IntTrunc(row[c])) ELSE row[c]]

\* new_row starts with the row's values of the input columns, in order.
InputValues(row) == [c \in 1..Len(input_columns) |-> row[c]]

(***************************************************************************)
(* Open PPMT Balance Schedule (openppmtSchedule.py): the full breakdown.   *)
(***************************************************************************)
OpenPPMT_output_columns ==
    input_columns \o <<"Period", "PMT", "IPMT", "PPMT", "Remaining_Balance",
                       "Cumulative_Interest_Paid", "Cumulative_Principal_Paid",
                       "Outstanding_Interest", "Outstanding_Principal">>

\* Variant without abs(): cumulative_interest += ipmt.
CumulativeInterest_Signed(cumulative_interest, ipmt) == RAdd(cumulative_interest, ipmt)

\* cumulative_interest += abs(ipmt)
CumulativeInterest(cumulative_interest, ipmt) == RAdd(cumulative_interest, RAbs(ipmt))

\* Variant without abs(): cumulative_principal += ppmt.
CumulativePrincipal_Signed(cumulative_principal, ppmt) == RAdd(cumulative_principal, ppmt)

\* cumulative_principal += abs(ppmt)
CumulativePrincipal(cumulative_principal, ppmt) == RAdd(cumulative_principal, RAbs(ppmt))

\* Variant with the running total added instead of deducted.
OutstandingInterest_Added(total_interest, cumulative_interest) ==
    RAdd(total_interest, cumulative_interest)

\* outstanding_interest = total_interest - cumulative_interest
OutstandingInterest(total_interest, cumulative_interest) ==
    RSub(total_interest, cumulative_interest)

\* outstanding_principal = remaining_balance - ppmt   (before the balance update)
OutstandingPrincipal(remaining_balance, ppmt) == RSub(remaining_balance, ppmt)

\* Variant with the sign of the update reversed: remaining_balance - ppmt.
RemainingBalance_Subtract(remaining_balance, ppmt) == RSub(remaining_balance, ppmt)

\* remaining_balance = float(remaining_balance + ppmt)
RemainingBalance(remaining_balance, ppmt) == RAdd(remaining_balance, ppmt)

\* Variant passing a zero-based period index: per=period - 1.
PeriodIpmt_ZeroBased(l) == NpfIpmt(l.periodic_rate, l.period - 1, l.nper, l.pv, pmt_type)

\* Variant reporting the interest as a magnitude: abs(npf.ipmt(...)).
PeriodIpmt_Magnitude(l) ==
    RAbs(NpfIpmt(l.periodic_rate, l.period, l.nper, l.pv, pmt_type))

\* Variant that leaves the timing out of the call: npf.ipmt's default, end of
\* period.
PeriodIpmt_EndTiming(l) == NpfIpmt(l.periodic_rate, l.period, l.nper, l.pv, FALSE)

\* ipmt = float(npf.ipmt(rate=periodic_rate, per=period, nper=nper, pv=pv, when=pmt_type))
PeriodIpmt(l) == NpfIpmt(l.periodic_rate, l.period, l.nper, l.pv, pmt_type)

\* Variant passing the annual rate where the periodic rate belongs.
PeriodPpmt_AnnualRate(l) == NpfPpmt(l.annual_rate, l.period, l.nper, l.pv, pmt_type)

\* ppmt = float(npf.ppmt(rate=periodic_rate, per=period, nper=nper, pv=pv, when=pmt_type))
PeriodPpmt(l) == NpfPpmt(l.periodic_rate, l.period, l.nper, l.pv, pmt_type)

OpenPPMT_Row == ReadRow("OpenPPMT", LoanLocals(df[i]))

OpenPPMT_Period ==
    LET ipmt == PeriodIpmt(loc)
        ppmt == PeriodPpmt(loc)
        cumulative_interest == CumulativeInterest(loc.cumulative_interest, ipmt)
        cumulative_principal == CumulativePrincipal(loc.cumulative_principal, ppmt)
        outstanding_interest == OutstandingInterest(loc.total_interest, cumulative_interest)
        outstanding_principal == OutstandingPrincipal(loc.remaining_balance, ppmt)
        remaining_balance == RemainingBalance(loc.remaining_balance, ppmt)
        new_row == InputValues(df[i]) \o
                   <<loc.period, loc.pmt, ipmt, ppmt, remaining_balance,
                     cumulative_interest, cumulative_principal,
                     outstanding_interest, outstanding_principal>>
    IN  AppendRow("OpenPPMT", new_row,
                  [loc EXCEPT !.cumulative_interest = cumulative_interest,
                              !.cumulative_principal = cumulative_principal,
                              !.remaining_balance = remaining_balance])

\* The dtype loop casts Period to int32 and the value columns to float64.
OpenPPMT_Return == ReturnTable("OpenPPMT", OpenPPMT_output_columns, all_data)

(***************************************************************************)
(* CUMIPMT Schedule (cumipmtSchedule.py).                                  *)
(***************************************************************************)
CUMIPMT_output_columns == input_columns \o <<"Period", "Cumulative_Interest_Paid">>

CUMIPMT_Row == ReadRow("CUMIPMT", LoanLocals(df[i]))

CUMIPMT_Period ==
    LET ipmt == PeriodIpmt(loc)
        cumulative_interest == CumulativeInterest(loc.cumulative_interest, ipmt)
        new_row == InputValues(df[i]) \o <<loc.period, cumulative_interest>>
    IN  AppendRow("CUMIPMT", new_row,
                  [loc EXCEPT !.cumulative_interest = cumulative_interest])

\* result_df['Cumulative_Interest_Paid'] = ....astype(np.float64) * -1
CUMIPMT_Return ==
    ReturnTable("CUMIPMT", CUMIPMT_output_columns,
                NegateColumn(CUMIPMT_output_columns, all_data, "Cumulative_Interest_Paid"))

(***************************************************************************)
(* Open IPMT Balance Schedule (openipmtSchedule.py).                       *)
(***************************************************************************)
OpenIPMT_output_columns == input_columns \o <<"Period", "Outstanding_Interest">>

OpenIPMT_Row == ReadRow("OpenIPMT", LoanLocals(df[i]))

OpenIPMT_Period ==
    LET ipmt == PeriodIpmt(loc)
        cumulative_interest == CumulativeInterest(loc.cumulative_interest, ipmt)
        outstanding_interest == OutstandingInterest(loc.total_interest, cumulative_interest)
        new_row == InputValues(df[i]) \o <<loc.period, outstanding_interest>>
    IN  AppendRow("OpenIPMT", new_row,
                  [loc EXCEPT !.cumulative_interest = cumulative_interest])

\* result_df['Outstanding_Interest'] = ....astype(np.float64) * -1
OpenIPMT_Return ==
    ReturnTable("OpenIPMT", OpenIPMT_output_columns,
                NegateColumn(OpenIPMT_output_columns, all_data, "Outstanding_Interest"))

(***************************************************************************)
(* Open PMT Balance Schedule (openpmtSchedule.py).                         *)
(***************************************************************************)
OpenPMT_output_columns == input_columns \o <<"Period", "Outstanding_Payments">>

\* Variant assigning instead of accumulating: cumulative_payments = pmt_amount.
CumulativePayments_Assign(cumulative_payments, pmt_amount) == pmt_amount

\* cumulative_payments += pmt_amount
CumulativePayments(cumulative_payments, pmt_amount) == RAdd(cumulative_payments, pmt_amount)

\* outstanding_payments = total_payments - cumulative_payments
OutstandingPayments(total_payments, cumulative_payments) ==
    RSub(total_payments, cumulative_payments)

\* Variant without the negation: new_row.extend([period, outstanding_payments]).
EmittedOutstandingPayments_Unsigned(outstanding_payments) == outstanding_payments

\* new_row.extend([period, -outstanding_payments])
EmittedOutstandingPayments(outstanding_payments) == RNeg(outstanding_payments)

OpenPMT_Row == ReadRow("OpenPMT", PmtLoanLocals(df[i]))

OpenPMT_Period ==
    LET cumulative_payments == CumulativePayments(loc.cumulative_payments, loc.pmt_amount)
        outstanding_payments == OutstandingPayments(loc.total_payments, cumulative_payments)
        new_row == InputValues(df[i]) \o
                   <<loc.period, EmittedOutstandingPayments(outstanding_payments)>>
    IN  AppendRow("OpenPMT", new_row,
                  [loc EXCEPT !.cumulative_payments = cumulative_payments])

OpenPMT_Return == ReturnTable("OpenPMT", OpenPMT_output_columns, all_data)

(***************************************************************************)
(* The schedule specification.                                             *)
(***************************************************************************)
Init ==
    /\ frequency \in FrequencyOptions
    /\ interest_type \in InterestTypeOptions
    /\ pmt_type \in BOOLEAN
    /\ df \in Batches
    /\ \A k \in 1..Len(df) :
          RateRepresentable(Cell(input_columns, df[k], rate_column), frequency, interest_type)
    /\ node = NodeOrder[1]
    /\ pc = "row"
    /\ i = 1
    /\ loc = NoLocals
    /\ all_data = <<>>
    /\ result = [n \in AllNodes |-> NoTable]
    /\ input_table = NoTable
    /\ opts = NoOpts
    /\ table_m = NoTable
    /\ table_b = NoTable

Next ==
    \/ OpenPPMT_Row
    \/ OpenPPMT_Period
    \/ OpenPPMT_Return
    \/ CUMIPMT_Row
    \/ CUMIPMT_Period
    \/ CUMIPMT_Return
    \/ OpenIPMT_Row
    \/ OpenIPMT_Period
    \/ OpenIPMT_Return
    \/ OpenPMT_Row
    \/ OpenPMT_Period
    \/ OpenPMT_Return

Spec == Init /\ [][Next]_vars

(***************************************************************************)
(* Reading the returned tables.                                            *)
(***************************************************************************)
Returned(n) == result[n].status = "ok"

NumRows(n) == Len(result[n].rows)

Col(n, r, name) == result[n].rows[r][ColIndex(result[n].columns, name)]

\* The loan of an output row, read from the input columns the row carries.
TermPeriods(row) == IntTrunc(Cell(input_columns, row, nper_column))

RowTerm(n, r) == IntTrunc(Col(n, r, nper_column))

RowPv(n, r) == Col(n, r, pv_column)

\* present_value > 0 and rate >= 0, as carried by the output row.
WellFormedRow(n, r) ==
    /\ RLt(R(0), Col(n, r, pv_column))
    /\ RLeq(R(0), Col(n, r, rate_column))

IsFinalPeriod(n, r) == Col(n, r, "Period") = RowTerm(n, r)

SeqTo(n) == [k \in 1..n |-> k]

RECURSIVE ExpectedPeriods(_, _)
ExpectedPeriods(d, k) ==
    IF k > Len(d) THEN <<>>
    ELSE SeqTo(TermPeriods(d[k])) \o ExpectedPeriods(d, k + 1)

PeriodColumn(n) == [r \in 1..NumRows(n) |-> Col(n, r, "Period")]

\* C1: every schedule node that returns a table emits, loan by loan, exactly
\* N records for a loan of N >= 1 periods, numbered 1, 2, ..., N in that
\* order, none skipped, repeated or reordered.
C1_PeriodsOneToN ==
    \A n \in Nodes : Returned(n) => PeriodColumn(n) = ExpectedPeriods(df, 1)

C1_Witness ==
    /\ \A n \in Nodes : Returned(n)
    /\ Len(df) = 2
    /\ TermPeriods(df[1]) = 3
    /\ TermPeriods(df[2]) = 2
    /\ NumRows("OpenPMT") = 5

\* C2 (as claimed): in every record of the full breakdown,
\* Outstanding_Principal equals Remaining_Balance.
C2_OutstandingPrincipalIsBalance ==
    Returned("OpenPPMT") =>
        \A r \in 1..NumRows("OpenPPMT") :
            Col("OpenPPMT", r, "Outstanding_Principal") = Col("OpenPPMT", r, "Remaining_Balance")

\* The balance before the period of row r: the loan's present value for
\* period 1, the previous record's Remaining_Balance otherwise.
BalanceBefore(r) ==
    IF Col("OpenPPMT", r, "Period") = 1 THEN RowPv("OpenPPMT", r)
    ELSE Col("OpenPPMT", r - 1, "Remaining_Balance")

\* C3: in the full breakdown, Remaining_Balance(k) = Remaining_Balance(k-1)
\* + PPMT(k) for every period k, with Remaining_Balance(0) = present value.
C3_BalanceRecurrence ==
    Returned("OpenPPMT") =>
        \A r \in 1..NumRows("OpenPPMT") :
            Col("OpenPPMT", r, "Remaining_Balance")
                = RAdd(BalanceBefore(r), Col("OpenPPMT", r, "PPMT"))

C3_Witness ==
    /\ Returned("OpenPPMT")
    /\ \E r \in 1..NumRows("OpenPPMT") :
          /\ Col("OpenPPMT", r, "Period") = 3
          /\ Col("OpenPPMT", r, "PPMT") # R(0)
          /\ Col("OpenPPMT", r, "IPMT") # R(0)

\* C4: for a loan with present_value > 0, rate >= 0 and N >= 1, under either
\* timing, the record of the final period N has Remaining_Balance = 0 (full
\* breakdown) and Outstanding_Interest = 0 (full breakdown and the
\* outstanding-interest view).
C4_TerminalConvergence ==
    /\ Returned("OpenPPMT") =>
          \A r \in 1..NumRows("OpenPPMT") :
              WellFormedRow("OpenPPMT", r) /\ IsFinalPeriod("OpenPPMT", r) =>
                  /\ Col("OpenPPMT", r, "Remaining_Balance") = R(0)
                  /\ Col("OpenPPMT", r, "Outstanding_Interest") = R(0)
    /\ Returned("OpenIPMT") =>
          \A r \in 1..NumRows("OpenIPMT") :
              WellFormedRow("OpenIPMT", r) /\ IsFinalPeriod("OpenIPMT", r) =>
                  Col("OpenIPMT", r, "Outstanding_Interest") = R(0)

C4_Witness ==
    /\ Returned("OpenPPMT")
    /\ Returned("OpenIPMT")
    /\ pmt_type
    /\ \E r \in 1..NumRows("OpenIPMT") :
          /\ WellFormedRow("OpenIPMT", r)
          /\ IsFinalPeriod("OpenIPMT", r)
          /\ Col("OpenIPMT", r, "Period") = 3
          /\ Col("OpenIPMT", r, rate_column) # R(0)

\* C5: in every record of the full breakdown, IPMT + PPMT = PMT.
C5_ComponentsSumToPayment ==
    Returned("OpenPPMT") =>
        \A r \in 1..NumRows("OpenPPMT") :
            RAdd(Col("OpenPPMT", r, "IPMT"), Col("OpenPPMT", r, "PPMT"))
                = Col("OpenPPMT", r, "PMT")

C5_Witness ==
    /\ Returned("OpenPPMT")
    /\ frequency = "MONTHLY"
    /\ \E r \in 1..NumRows("OpenPPMT") :
          /\ Col("OpenPPMT", r, "Period") = 2
          /\ Col("OpenPPMT", r, "IPMT") # R(0)
          /\ Col("OpenPPMT", r, "PMT") # R(0)

\* Every value a well-formed loan (present_value > 0, rate >= 0) has in
\* column name of node n's returned table satisfies P.
AllEmitted(n, name, P(_)) ==
    Returned(n) =>
        \A r \in 1..NumRows(n) : WellFormedRow(n, r) => P(Col(n, r, name))

NonNegative(v) == RLeq(R(0), v)

NonPositive(v) == RLeq(v, R(0))

\* C6 (as claimed): the cumulative-interest view and the outstanding-interest
\* view emit values flipped to positive: every value they emit for a loan
\* with present_value > 0 and rate >= 0 is >= 0.
C6_InterestViewsNonNegative ==
    /\ AllEmitted("CUMIPMT", "Cumulative_Interest_Paid", NonNegative)
    /\ AllEmitted("OpenIPMT", "Outstanding_Interest", NonNegative)

\* C6 (amended): the two views negate the non-negative totals the loop keeps:
\* every value they emit for a loan with present_value > 0 and rate >= 0 is
\* <= 0.
C6_InterestViewsNonPositive ==
    /\ AllEmitted("CUMIPMT", "Cumulative_Interest_Paid", NonPositive)
    /\ AllEmitted("OpenIPMT", "Outstanding_Interest", NonPositive)

C6_Witness ==
    /\ Returned("CUMIPMT")
    /\ Returned("OpenIPMT")
    /\ \E r \in 1..NumRows("CUMIPMT") :
          /\ WellFormedRow("CUMIPMT", r)
          /\ RLt(Col("CUMIPMT", r, "Cumulative_Interest_Paid"), R(0))
    /\ \E r \in 1..NumRows("OpenIPMT") :
          /\ WellFormedRow("OpenIPMT", r)
          /\ RLt(Col("OpenIPMT", r, "Outstanding_Interest"), R(0))

\* C7 (as claimed): Outstanding_Payments is >= 0 in every period and 0 at the
\* final period.
C7_OutstandingPaymentsNonNegative ==
    Returned("OpenPMT") =>
        \A r \in 1..NumRows("OpenPMT") :
            /\ NonNegative(Col("OpenPMT", r, "Outstanding_Payments"))
            /\ IsFinalPeriod("OpenPMT", r) => Col("OpenPMT", r, "Outstanding_Payments") = R(0)

\* C7 (amended): Outstanding_Payments is the negated remaining obligation: it
\* is <= 0 in every period and 0 at the final period.
C7_OutstandingPaymentsNonPositive ==
    Returned("OpenPMT") =>
        \A r \in 1..NumRows("OpenPMT") :
            /\ NonPositive(Col("OpenPMT", r, "Outstanding_Payments"))
            /\ IsFinalPeriod("OpenPMT", r) => Col("OpenPMT", r, "Outstanding_Payments") = R(0)

C7_Witness ==
    /\ Returned("OpenPMT")
    /\ \E r \in 1..NumRows("OpenPMT") :
          /\ Col("OpenPMT", r, "Period") = 1
          /\ RLt(Col("OpenPMT", r, "Outstanding_Payments"), R(0))
    /\ \E r \in 1..NumRows("OpenPMT") :
          /\ Col("OpenPMT", r, "Period") = 3
          /\ IsFinalPeriod("OpenPMT", r)
          /\ RowPv("OpenPMT", r) # R(0)

\* C8: the magnitude of Outstanding_Payments at period k of a loan of N
\* periods is |payment| * (N - k), the payment being the PMT the full
\* breakdown reports for the same record; the running total the node keeps
\* adds nothing else.
C8_OutstandingPaymentsClosedForm ==
    Returned("OpenPMT") /\ Returned("OpenPPMT") =>
        \A r \in 1..NumRows("OpenPMT") :
            RAbs(Col("OpenPMT", r, "Outstanding_Payments"))
                = RMul(RAbs(Col("OpenPPMT", r, "PMT")),
                       R(RowTerm("OpenPMT", r) - Col("OpenPMT", r, "Period")))

C8_Witness ==
    /\ Returned("OpenPMT")
    /\ Returned("OpenPPMT")
    /\ \E r \in 1..NumRows("OpenPMT") :
          /\ Col("OpenPMT", r, "Period") = 2
          /\ RowTerm("OpenPMT", r) = 3
          /\ Col("OpenPPMT", r, "IPMT") # R(0)
          /\ Col("OpenPMT", r, "Outstanding_Payments") # R(0)

\* A loan row whose number of periods is a number <= 0.
NonPositiveTerm(row) ==
    /\ ~IsNaN(Cell(input_columns, row, nper_column))
    /\ TermPeriods(row) <= 0

\* C9 (as claimed): a loan row with term_periods <= 0 makes the node fail: no
\* schedule node returns a table for a batch that holds such a row.
C9_NonPositiveTermFails ==
    \A n \in Nodes :
        Returned(n) => \A k \in 1..Len(df) : ~NonPositiveTerm(df[k])

\* C9 (amended): a loan row with term_periods <= 0 raises nothing in any of
\* the four nodes (the only exception of a node is the ValueError of a
\* missing number of periods); the row is read, its payment is computed, the
\* period loop runs zero times and the returned table has no record of it.
C9_NonPositiveTermYieldsNoRecords ==
    \A n \in Nodes :
        /\ result[n].status # "none" /\ ~Returned(n) =>
              /\ result[n].status = "ValueError"
              /\ \E k \in 1..Len(df) : IsNaN(Cell(input_columns, df[k], nper_column))
        /\ Returned(n) => \A r \in 1..NumRows(n) : RowTerm(n, r) >= 1
        /\ node = n /\ pc = "row" /\ i > 1 /\ NonPositiveTerm(df[i - 1]) =>
              /\ loc.nper = TermPeriods(df[i - 1])
              /\ loc.pmt = NpfPmt(loc.periodic_rate, loc.nper, loc.pv, pmt_type)
              /\ loc.period = 0

C9_Witness ==
    /\ \A n \in Nodes : Returned(n)
    /\ Len(df) = 2
    /\ NonPositiveTerm(df[1])
    /\ TermPeriods(df[2]) = 2
    /\ NumRows("OpenPPMT") = 2

(***************************************************************************)
(* The single-value formula nodes (nodes/ExcelLoanFuncs).  execute() is    *)
(* one vectorised statement over the whole input table, modelled as one    *)
(* step per node.  The rate column holds the rate per period.              *)
(***************************************************************************)
formula_columns == <<"Rate", "Per", "Nper", "PV">>

per_column == "Per"

FormulaRates == {R(0), <<1, 3>>, R(1)}

FormulaRows ==
    {<<a, R(per), R(n), p>> :
        a \in FormulaRates, per \in -1..(MaxNper + 1), n \in 1..MaxNper,
        p \in PvValues \ {R(0)}}

FormulaTables ==
    {[status |-> "ok", columns |-> formula_columns, rows |-> rows] :
        rows \in UNION {[1..k -> FormulaRows] : k \in RowCounts}}

\* Variant that keeps the stale column: the drop left out.
DropColumn_KeepStale(t, name) == t

\* df.drop(columns=[name]) when name is a column of df.
DropColumn(t, name) ==
    LET keep == {c \in 1..Len(t.columns) : t.columns[c] # name}
        Pick(seq) == [k \in 1..Cardinality(keep) |->
                        seq[CHOOSE c \in keep : Cardinality({b \in keep : b < c}) = k - 1]]
    IN  [t EXCEPT !.columns = Pick(t.columns),
                  !.rows = [r \in 1..Len(t.rows) |-> Pick(t.rows[r])]]

\* df[name] = values: a new last column.
AssignColumn(t, name, values) ==
    [t EXCEPT !.columns = Append(t.columns, name),
              !.rows = [r \in 1..Len(t.rows) |-> Append(t.rows[r], values[r])]]

FormulaCell(t, r, name) == Cell(t.columns, t.rows[r], name)

\* Variant clamping the period into the schedule before the call.
IPMT_Values_Clamped(t, when) ==
    [r \in 1..Len(t.rows) |->
        NpfIpmt(FormulaCell(t, r, "Rate"),
                IF IntTrunc(FormulaCell(t, r, per_column)) < 1 THEN 1
                ELSE IntTrunc(FormulaCell(t, r, per_column)),
                IntTrunc(FormulaCell(t, r, "Nper")),
                FormulaCell(t, r, "PV"), when)]

\* npf.ipmt(rate=df[rate_column], per=df[per_column], nper=df[nper_column],
\*          pv=df[pv_column], when=pmt_type), row by row.
IPMT_Values(t, when) ==
    [r \in 1..Len(t.rows) |->
        NpfIpmt(FormulaCell(t, r, "Rate"),
                IntTrunc(FormulaCell(t, r, per_column)),
                IntTrunc(FormulaCell(t, r, "Nper")),
                FormulaCell(t, r, "PV"), when)]

\* npf.ppmt(...) on the same columns, row by row.
PPMT_Values(t, when) ==
    [r \in 1..Len(t.rows) |->
        NpfPpmt(FormulaCell(t, r, "Rate"),
                IntTrunc(FormulaCell(t, r, per_column)),
                IntTrunc(FormulaCell(t, r, "Nper")),
                FormulaCell(t, r, "PV"), when)]

\* IPMTNode.execute
IPMT_Execute ==
    /\ pc = "formula"
    /\ result["IPMT"].status = "none"
    /\ result' = [result EXCEPT !["IPMT"] =
                    AssignColumn(DropColumn(input_table, "IPMT"), "IPMT",
                                 IPMT_Values(DropColumn(input_table, "IPMT"), pmt_type))]
    /\ UNCHANGED <<node, pc, i, loc, all_data>>
    /\ UNCHANGED config

\* PPMTNode.execute
PPMT_Execute ==
    /\ pc = "formula"
    /\ result["PPMT"].status = "none"
    /\ result' = [result EXCEPT !["PPMT"] =
                    AssignColumn(DropColumn(input_table, "PPMT"), "PPMT",
                                 PPMT_Values(DropColumn(input_table, "PPMT"), pmt_type))]
    /\ UNCHANGED <<node, pc, i, loc, all_data>>
    /\ UNCHANGED config

FormulaInit ==
    /\ frequency = "MONTHLY"
    /\ interest_type = "COMPOUND"
    /\ pmt_type \in BOOLEAN
    /\ df = <<>>
    /\ input_table \in FormulaTables
    /\ opts = NoOpts
    /\ table_m = NoTable
    /\ table_b = NoTable
    /\ node = "none"
    /\ pc = "formula"
    /\ i = 1
    /\ loc = NoLocals
    /\ all_data = <<>>
    /\ result = [n \in AllNodes |-> NoTable]

FormulaNext ==
    \/ IPMT_Execute
    \/ PPMT_Execute

FormulaSpec == FormulaInit /\ [][FormulaNext]_vars

\* Row r of the formula input asks for a period outside [1, nper].
PeriodOutOfRange(r) ==
    \/ IntTrunc(FormulaCell(input_table, r, per_column)) < 1
    \/ IntTrunc(FormulaCell(input_table, r, per_column))
          > IntTrunc(FormulaCell(input_table, r, "Nper"))

\* C10 (as claimed): a query whose period is outside [1, term_periods] makes
\* the IPMT and PPMT nodes fail instead of returning a value: neither node
\* returns a table for an input that holds such a row.
C10_OutOfRangePeriodFails ==
    \A n \in FormulaNodes :
        Returned(n) => \A r \in 1..Len(input_table.rows) : ~PeriodOutOfRange(r)

\* C10 (amended): the IPMT and PPMT nodes check no range and raise nothing
\* for a period outside [1, term_periods]: the node returns its table with
\* one value per input row, which is NaN for a period < 1 and the formula's
\* finite extrapolation for a period > term_periods.
C10_OutOfRangePeriodYieldsValue ==
    \A n \in FormulaNodes :
        result[n].status # "none" =>
            /\ Returned(n)
            /\ NumRows(n) = Len(input_table.rows)
            /\ \A r \in 1..NumRows(n) :
                  /\ IntTrunc(FormulaCell(input_table, r, per_column)) < 1
                        => IsNaN(Col(n, r, n))
                  /\ IntTrunc(FormulaCell(input_table, r, per_column))
                        > IntTrunc(FormulaCell(input_table, r, "Nper"))
                        => IsFinite(Col(n, r, n))

C10_Witness ==
    /\ Returned("IPMT")
    /\ Returned("PPMT")
    /\ Len(input_table.rows) = 2
    /\ IntTrunc(FormulaCell(input_table, 1, per_column)) = 0
    /\ IntTrunc(FormulaCell(input_table, 2, per_column))
          = IntTrunc(FormulaCell(input_table, 2, "Nper")) + 1
    /\ FormulaCell(input_table, 2, "Rate") # R(0)
    /\ Col("PPMT", 2, "PPMT") # R(0)

(***************************************************************************)
(* Failure of one loan of a batch.                                         *)
(***************************************************************************)
\* A loan row whose processing fails: int() of a missing number of periods.
FailingRow(row) == IsNaN(Cell(input_columns, row, nper_column))

HasFailingRow == \E k \in 1..Len(df) : FailingRow(df[k])

\* Node n has left execute(), with a table or with an exception.
Finished(n) == result[n].status # "none"

\* Every node has left execute().  result[n] is written once, when node n
\* leaves, and every run of the four nodes ends: the tables of the finished
\* runs are all the tables there are.
RunOver == pc = "done"

\* The Period column the batch would give with its failing loans left out.
RECURSIVE SurvivorPeriods(_, _)
SurvivorPeriods(d, k) ==
    IF k > Len(d) THEN <<>>
    ELSE (IF FailingRow(d[k]) THEN <<>> ELSE SeqTo(TermPeriods(d[k])))
             \o SurvivorPeriods(d, k + 1)

\* C11 (as claimed): a loan whose processing fails contributes no record,
\* and the records of the other loans of the batch are kept: the output of a
\* node that has finished holds the records 1..N of every loan that did not
\* fail.
C11_FailureKeepsOtherLoans ==
    \A n \in Nodes : Finished(n) => PeriodColumn(n) = SurvivorPeriods(df, 1)

\* C11 (amended): a loan whose processing fails contributes no record, and
\* neither does any other loan of the batch: the exception leaves execute()
\* without a table, so a node that has finished on a batch with a failing
\* loan has returned nothing, while a batch without one gets its table.
C11_FailureYieldsNoTable ==
    RunOver =>
        \A n \in Nodes :
            Finished(n) =>
                IF HasFailingRow
                THEN /\ ~Returned(n)
                     /\ result[n].status = "ValueError"
                     /\ result[n].columns = <<>>
                     /\ result[n].rows = <<>>
                ELSE Returned(n)

C11_Witness ==
    /\ RunOver
    /\ \A n \in Nodes : Finished(n) /\ ~Returned(n)
    /\ Len(df) = 2
    /\ ~FailingRow(df[1])
    /\ TermPeriods(df[1]) = 2
    /\ FailingRow(df[2])

(***************************************************************************)
(* The schedule of one loan written as a function of the loan's own row    *)
(* and of the node configuration, with sums in place of running totals.    *)
(***************************************************************************)
OwnPv(row) == Cell(input_columns, row, pv_column)

OwnRate(row) == PeriodicRate(Cell(input_columns, row, rate_column), frequency, interest_type)

OwnPmt(row) == NpfPmt(OwnRate(row), TermPeriods(row), OwnPv(row), pmt_type)

\* The loan's interest and principal components of periods 1..k, in order.
RECURSIVE OwnIpmts(_, _)
OwnIpmts(row, k) ==
    IF k <= 0 THEN <<>>
    ELSE Append(OwnIpmts(row, k - 1),
                NpfIpmt(OwnRate(row), k, TermPeriods(row), OwnPv(row), pmt_type))

RECURSIVE OwnPpmts(_, _)
OwnPpmts(row, k) ==
    IF k <= 0 THEN <<>>
    ELSE Append(OwnPpmts(row, k - 1),
                NpfPpmt(OwnRate(row), k, TermPeriods(row), OwnPv(row), pmt_type))

\* |s[1]| + ... + |s[k]| and s[1] + ... + s[k].
RECURSIVE SumAbs(_, _)
SumAbs(s, k) == IF k = 0 THEN R(0) ELSE RAdd(SumAbs(s, k - 1), RAbs(s[k]))

RECURSIVE Sum(_, _)
Sum(s, k) == IF k = 0 THEN R(0) ELSE RAdd(Sum(s, k - 1), s[k])

\* Record k of node n for a loan of payment pmt, components ipmts and ppmts.
OwnRecord(n, row, pmt, ipmts, ppmts, k) ==
    LET total_interest == RSub(RMul(RAbs(pmt), R(TermPeriods(row))), OwnPv(row))
        outstanding_interest == RSub(total_interest, SumAbs(ipmts, k))
    IN  InputValues(row) \o
        CASE n = "OpenPPMT" ->
               <<k, pmt, ipmts[k], ppmts[k], RAdd(OwnPv(row), Sum(ppmts, k)),
                 SumAbs(ipmts, k), SumAbs(ppmts, k), outstanding_interest,
                 RSub(RAdd(OwnPv(row), Sum(ppmts, k - 1)), ppmts[k])>>
          [] n = "CUMIPMT" -> <<k, RMul(SumAbs(ipmts, k), R(-1))>>
          [] n = "OpenIPMT" -> <<k, RMul(outstanding_interest, R(-1))>>
          [] n = "OpenPMT" ->
               <<k, RNeg(RSub(RMul(RAbs(pmt), R(TermPeriods(row))),
                              RMul(RAbs(pmt), R(k))))>>

OwnRecords(n, row) ==
    LET pmt == OwnPmt(row)
        ipmts == OwnIpmts(row, TermPeriods(row))
        ppmts == OwnPpmts(row, TermPeriods(row))
    IN  [k \in 1..TermPeriods(row) |-> OwnRecord(n, row, pmt, ipmts, ppmts, k)]

RECURSIVE BatchRecords(_, _, _)
BatchRecords(n, d, k) ==
    IF k > Len(d) THEN <<>> ELSE OwnRecords(n, d[k]) \o BatchRecords(n, d, k + 1)

ViewMatches(n, name, f(_)) ==
    Returned(n) /\ Returned("OpenPPMT") =>
        /\ NumRows(n) = NumRows("OpenPPMT")
        /\ \A r \in 1..NumRows(n) :
              /\ Col(n, r, "Period") = Col("OpenPPMT", r, "Period")
              /\ Col(n, r, name) = f(Col("OpenPPMT", r, name))

SameValue(v) == v

\* C13 (as claimed): Cumulative_Interest_Paid of the cumulative-interest view
\* and Outstanding_Interest of the outstanding-interest view equal the full
\* breakdown's values for the same loan and period.
C13_ViewsEqualFullBreakdown ==
    /\ ViewMatches("CUMIPMT", "Cumulative_Interest_Paid", SameValue)
    /\ ViewMatches("OpenIPMT", "Outstanding_Interest", SameValue)

\* C13 (amended): the two views emit the full breakdown's values with the
\* sign reversed: equal magnitude, opposite sign, for the same loan and
\* period.
C13_ViewsNegateFullBreakdown ==
    RunOver =>
        /\ ViewMatches("CUMIPMT", "Cumulative_Interest_Paid", RNeg)
        /\ ViewMatches("OpenIPMT", "Outstanding_Interest", RNeg)

C13_Witness ==
    /\ RunOver
    /\ Returned("OpenPPMT")
    /\ Returned("CUMIPMT")
    /\ Returned("OpenIPMT")
    /\ \E r \in 1..NumRows("OpenPPMT") :
          /\ Col("OpenPPMT", r, "Period") = 2
          /\ RowTerm("OpenPPMT", r) = 3
          /\ RLt(R(0), Col("OpenPPMT", r, "Cumulative_Interest_Paid"))
          /\ RLt(Col("CUMIPMT", r, "Cumulative_Interest_Paid"), R(0))
          /\ RLt(R(0), Col("OpenPPMT", r, "Outstanding_Interest"))
          /\ RLt(Col("OpenIPMT", r, "Outstanding_Interest"), R(0))

(***************************************************************************)
(* Monotonicity across the periods of one loan.                            *)
(***************************************************************************)
\* Record r + 1 of node n's table is the next period of the loan of record r.
NextPeriodOfSameLoan(n, r) ==
    /\ r + 1 <= NumRows(n)
    /\ Col(n, r + 1, "Period") = Col(n, r, "Period") + 1

\* Column name of node n's table never decreases from one period of a loan
\* to the next.
NeverDecreases(n, name) ==
    Returned(n) =>
        \A r \in 1..NumRows(n) :
            NextPeriodOfSameLoan(n, r) => RLeq(Col(n, r, name), Col(n, r + 1, name))

NeverIncreases(n, name) ==
    Returned(n) =>
        \A r \in 1..NumRows(n) :
            NextPeriodOfSameLoan(n, r) => RLeq(Col(n, r + 1, name), Col(n, r, name))

MagnitudeNeverIncreases(n, name) ==
    Returned(n) =>
        \A r \in 1..NumRows(n) :
            NextPeriodOfSameLoan(n, r) =>
                RLeq(RAbs(Col(n, r + 1, name)), RAbs(Col(n, r, name)))

C15_FinalTotals ==
    RunOver /\ Returned("OpenPPMT") =>
        \A r \in 1..NumRows("OpenPPMT") :
            WellFormedRow("OpenPPMT", r) /\ IsFinalPeriod("OpenPPMT", r) =>
                /\ Col("OpenPPMT", r, "Cumulative_Principal_Paid") = RowPv("OpenPPMT", r)
                /\ Col("OpenPPMT", r, "Cumulative_Interest_Paid")
                      = RSub(RMul(RAbs(Col("OpenPPMT", r, "PMT")),
                                  R(RowTerm("OpenPPMT", r))),
                             RowPv("OpenPPMT", r))

C15_Witness ==
    /\ RunOver
    /\ Returned("OpenPPMT")
    /\ \E r \in 1..NumRows("OpenPPMT") :
          /\ WellFormedRow("OpenPPMT", r)
          /\ IsFinalPeriod("OpenPPMT", r)
          /\ RowTerm("OpenPPMT", r) = 3
          /\ RLt(R(0), Col("OpenPPMT", r, "Cumulative_Interest_Paid"))
          /\ interest_type = "COMPOUND"

\* C16: with annual_rate = 0, in either rate mode and at any frequency, every
\* record of the full breakdown has IPMT = 0 and PPMT = PMT =
\* -present_value / N, all finite: nothing is divided by zero.
C16_ZeroRate ==
    RunOver /\ Returned("OpenPPMT") =>
        \A r \in 1..NumRows("OpenPPMT") :
            Col("OpenPPMT", r, rate_column) = R(0) =>
                /\ Col("OpenPPMT", r, "IPMT") = R(0)
                /\ Col("OpenPPMT", r, "PPMT") = Col("OpenPPMT", r, "PMT")
                /\ Col("OpenPPMT", r, "PMT")
                      = RDiv(RNeg(RowPv("OpenPPMT", r)), R(RowTerm("OpenPPMT", r)))
                /\ IsFinite(Col("OpenPPMT", r, "PMT"))

C16_Witness ==
    /\ RunOver
    /\ Returned("OpenPPMT")
    /\ interest_type = "COMPOUND"
    /\ frequency = "QUARTERLY"
    /\ \E r \in 1..NumRows("OpenPPMT") :
          /\ Col("OpenPPMT", r, rate_column) = R(0)
          /\ RowTerm("OpenPPMT", r) = 3
          /\ Col("OpenPPMT", r, "Period") = 2
          /\ Col("OpenPPMT", r, "PMT") = <<-1, 3>>

\* The columns a node computes: those after the input columns and Period.
ComputedColumns(n) ==
    {result[n].columns[c] : c \in (Len(input_columns) + 2)..Len(result[n].columns)}

\* C17: a loan with present_value = 0 has, in every record of the full
\* breakdown, PMT, IPMT, PPMT, Remaining_Balance and the cumulative and
\* outstanding totals equal to 0 (so neither NaN nor infinite); the three
\* views emit 0 for it as well.
C17_ZeroPrincipalAllZero ==
    RunOver =>
        \A n \in Nodes :
            Returned(n) =>
                \A r \in 1..NumRows(n) :
                    RowPv(n, r) = R(0) =>
                        \A name \in ComputedColumns(n) : Col(n, r, name) = R(0)

C17_Witness ==
    /\ RunOver
    /\ \A n \in Nodes : Returned(n)
    /\ Cardinality(ComputedColumns("OpenPPMT")) = 8
    /\ \E r \in 1..NumRows("OpenPPMT") :
          /\ RowPv("OpenPPMT", r) = R(0)
          /\ Col("OpenPPMT", r, rate_column) # R(0)
          /\ RowTerm("OpenPPMT", r) = 3
          /\ Col("OpenPPMT", r, "Period") = 3
    /\ \E r \in 1..NumRows("OpenPPMT") :
          /\ RowPv("OpenPPMT", r) = R(0)
          /\ Col("OpenPPMT", r, rate_column) = R(0)

\* C18 (as claimed): a loan with term_periods = 1, at any rate, has one
\* record, for period 1, in which PMT = PPMT and Remaining_Balance = 0.
C18_SinglePeriodPaymentIsPrincipal ==
    Returned("OpenPPMT") =>
        \A r \in 1..NumRows("OpenPPMT") :
            RowTerm("OpenPPMT", r) = 1 =>
                /\ Col("OpenPPMT", r, "Period") = 1
                /\ Col("OpenPPMT", r, "PMT") = Col("OpenPPMT", r, "PPMT")
                /\ Col("OpenPPMT", r, "Remaining_Balance") = R(0)

\* C18 (amended): a loan with term_periods = 1 has one record, for period 1,
\* with Remaining_Balance = 0 and PPMT = -present_value; its PMT is PPMT plus
\* the period's interest, which is 0 under BEGIN timing and
\* -present_value * periodic rate under END timing, so PMT = PPMT only at
\* rate 0, under BEGIN timing or for present_value 0.
C18_SinglePeriodPaymentIsPrincipalPlusInterest ==
    RunOver /\ Returned("OpenPPMT") =>
        \A r \in 1..NumRows("OpenPPMT") :
            RowTerm("OpenPPMT", r) = 1 =>
                LET row == InputValues(result["OpenPPMT"].rows[r])
                    interest == IF pmt_type THEN R(0)
                                ELSE RNeg(RMul(OwnPv(row), OwnRate(row)))
                IN  /\ Col("OpenPPMT", r, "Period") = 1
                    /\ Col("OpenPPMT", r, "Remaining_Balance") = R(0)
                    /\ Col("OpenPPMT", r, "PPMT") = RNeg(OwnPv(row))
                    /\ Col("OpenPPMT", r, "IPMT") = interest
                    /\ Col("OpenPPMT", r, "PMT") = RAdd(RNeg(OwnPv(row)), interest)

C18_Witness ==
    /\ RunOver
    /\ Returned("OpenPPMT")
    /\ ~pmt_type
    /\ \E r \in 1..NumRows("OpenPPMT") :
          /\ RowTerm("OpenPPMT", r) = 1
          /\ RowPv("OpenPPMT", r) # R(0)
          /\ Col("OpenPPMT", r, rate_column) # R(0)
          /\ RLt(Col("OpenPPMT", r, "PMT"), Col("OpenPPMT", r, "PPMT"))
          /\ Col("OpenPPMT", r, "Remaining_Balance") = R(0)

(***************************************************************************)
(* The periodic rate.  The same four nodes run on one-loan batches of one  *)
(* period at most, which leaves room for annual rates such as 0.12 whose   *)
(* powers over a longer schedule would leave the integer range.            *)
(***************************************************************************)
RateAnnualRates == {R(0), <<3, 25>>, <<1, 2>>, R(3), R(4), R(15)}

\* No period or one: the rate is read and used, the schedule stays short.
RateNperValues == {R(0), R(1)}

RateRows == {<<a, n, p>> : a \in RateAnnualRates, n \in RateNperValues, p \in PvValues}

RateBatches == [{1} -> RateRows]

RateInit ==
    /\ frequency \in FrequencyOptions
    /\ interest_type \in InterestTypeOptions
    /\ pmt_type \in BOOLEAN
    /\ df \in RateBatches
    /\ \A k \in 1..Len(df) :
          RateRepresentable(Cell(input_columns, df[k], rate_column), frequency, interest_type)
    /\ node = NodeOrder[1]
    /\ pc = "row"
    /\ i = 1
    /\ loc = NoLocals
    /\ all_data = <<>>
    /\ result = [n \in AllNodes |-> NoTable]
    /\ input_table = NoTable
    /\ opts = NoOpts
    /\ table_m = NoTable
    /\ table_b = NoTable

RateSpec == RateInit /\ [][Next]_vars

\* The node at work has read a loan row and holds its periodic rate.
HoldsRate == node \in Nodes /\ (pc = "loop" \/ (pc = "row" /\ i > 1))

\* The annual rate of the row whose periodic rate the node holds.
HeldAnnualRate ==
    Cell(input_columns, df[IF pc = "loop" THEN i ELSE i - 1], rate_column)

FrequencyCount ==
    CASE frequency = "ANNUAL" -> 1
      [] frequency = "QUARTERLY" -> 4
      [] frequency = "MONTHLY" -> 12

\* C19: in each of the four nodes the periodic rate is annual_rate /
\* frequency_count in SIMPLE mode (1, 4, 12 for ANNUAL, QUARTERLY, MONTHLY),
\* so 0.12 with MONTHLY gives 0.01; annual_rate = 0 gives 0 in both modes.
C19_PeriodicRate ==
    HoldsRate =>
        /\ loc.annual_rate = HeldAnnualRate
        /\ interest_type = "SIMPLE" =>
              loc.periodic_rate = RDiv(HeldAnnualRate, R(FrequencyCount))
        /\ interest_type = "SIMPLE" /\ frequency = "MONTHLY" /\ HeldAnnualRate = <<3, 25>> =>
              loc.periodic_rate = <<1, 100>>
        /\ HeldAnnualRate = R(0) => loc.periodic_rate = R(0)

C19_Witness ==
    /\ pc = "done"
    /\ interest_type = "SIMPLE"
    /\ frequency = "MONTHLY"
    /\ ~pmt_type
    /\ Cell(input_columns, df[1], rate_column) = <<3, 25>>
    /\ Returned("OpenPPMT")
    /\ NumRows("OpenPPMT") = 1
    /\ Col("OpenPPMT", 1, "IPMT") = <<-1, 100>>

\* C20: for a loan with present_value > 0 and rate >= 0, every record of the
\* full breakdown has PMT <= 0, IPMT <= 0 and PPMT <= 0, and
\* Remaining_Balance >= 0.
C20_OutflowsNonPositive ==
    RunOver =>
        /\ AllEmitted("OpenPPMT", "PMT", NonPositive)
        /\ AllEmitted("OpenPPMT", "IPMT", NonPositive)
        /\ AllEmitted("OpenPPMT", "PPMT", NonPositive)
        /\ AllEmitted("OpenPPMT", "Remaining_Balance", NonNegative)

C20_Witness ==
    /\ RunOver
    /\ Returned("OpenPPMT")
    /\ \E r \in 1..NumRows("OpenPPMT") :
          /\ WellFormedRow("OpenPPMT", r)
          /\ Col("OpenPPMT", r, "Period") = 2
          /\ RLt(Col("OpenPPMT", r, "PMT"), R(0))
          /\ RLt(Col("OpenPPMT", r, "IPMT"), R(0))
          /\ RLt(Col("OpenPPMT", r, "PPMT"), R(0))
          /\ RLt(R(0), Col("OpenPPMT", r, "Remaining_Balance"))

\* C21: with payments at the beginning of the period (pmt_type set), the
\* record of period 1 of the full breakdown has IPMT = 0 and PPMT = PMT, and
\* the level payment PMT is the end-of-period payment of the same loan
\* divided by 1 + periodic rate.
C21_BeginTiming ==
    RunOver /\ Returned("OpenPPMT") /\ pmt_type =>
        \A r \in 1..NumRows("OpenPPMT") :
            LET row == InputValues(result["OpenPPMT"].rows[r])
            IN  /\ Col("OpenPPMT", r, "PMT")
                      = RDiv(NpfPmt(OwnRate(row), TermPeriods(row), OwnPv(row), FALSE),
                             RAdd(R(1), OwnRate(row)))
                /\ Col("OpenPPMT", r, "Period") = 1 =>
                      /\ Col("OpenPPMT", r, "IPMT") = R(0)
                      /\ Col("OpenPPMT", r, "PPMT") = Col("OpenPPMT", r, "PMT")

C21_Witness ==
    /\ RunOver
    /\ Returned("OpenPPMT")
    /\ pmt_type
    /\ \E r \in 1..NumRows("OpenPPMT") :
          /\ Col("OpenPPMT", r, "Period") = 1
          /\ RowTerm("OpenPPMT", r) = 3
          /\ RowPv("OpenPPMT", r) # R(0)
          /\ Col("OpenPPMT", r, rate_column) # R(0)
          /\ Col("OpenPPMT", r, "IPMT") = R(0)
          /\ Col("OpenPPMT", r + 1, "IPMT") # R(0)

(***************************************************************************)
(* Order of the output rows and the input columns they carry.              *)
(***************************************************************************)
\* The leading part of every output row: the input columns and Period.
LeadingColumns == input_columns \o <<"Period">>

Leading(n) ==
    [r \in 1..NumRows(n) |-> SubSeq(result[n].rows[r], 1, Len(LeadingColumns))]

\* Loan by loan in input order, periods ascending, the loan's own input
\* values in front of each period.
RECURSIVE ExpectedLeading(_, _)
ExpectedLeading(d, k) ==
    IF k > Len(d) THEN <<>>
    ELSE [j \in 1..TermPeriods(d[k]) |-> d[k] \o <<j>>] \o ExpectedLeading(d, k + 1)

\* C22: the output rows of every schedule node are grouped loan by loan in
\* the order of the input rows, in ascending period within a loan; every row
\* starts with the input columns of its loan, values unchanged, and the
\* node's computed columns follow.
C22_RowsGroupedWithInputColumns ==
    RunOver =>
        \A n \in Nodes :
            Returned(n) =>
                /\ SubSeq(result[n].columns, 1, Len(LeadingColumns)) = LeadingColumns
                /\ Len(result[n].columns) > Len(LeadingColumns)
                /\ \A r \in 1..NumRows(n) : Len(result[n].rows[r]) = Len(result[n].columns)
                /\ Leading(n) = ExpectedLeading(df, 1)

C22_Witness ==
    /\ RunOver
    /\ \A n \in Nodes : Returned(n)
    /\ Len(df) = 2
    /\ Cell(input_columns, df[1], nper_column) = <<3, 2>>
    /\ TermPeriods(df[2]) = 2
    /\ df[1][1] # df[2][1]
    /\ df[1][3] # df[2][3]
    /\ NumRows("CUMIPMT") = 3

(***************************************************************************)
(* The five single-value nodes in a workflow (nodes/ExcelLoanFuncs): KNIME *)
(* calls configure() on the input schema, then execute() on the input      *)
(* table; the output of a node can be wired back as an input.  The nodes   *)
(* run one after another on the same input table.                          *)
(***************************************************************************)
pmt_column == "PMT"

start_period_column == "Start"

end_period_column == "End"

\* The input table already holds a PV column (the loan amount the PMT, IPMT,
\* PPMT and CUMIPMT nodes read) and a PMT column (the payment the PV node
\* reads): each is also the result column of one of the nodes.
excel_columns == <<"Rate", "Per", "Nper", "PV", "PMT", "Start", "End">>

ExcelPers == {1, 2}

ExcelRows ==
    {<<a, R(per), R(n), R(1), R(-1), R(s), R(e)>> :
        a \in FormulaRates, per \in ExcelPers, n \in 1..MaxNper,
        s \in 0..MaxNper, e \in 0..(MaxNper + 1)}

ExcelTables ==
    {[status |-> "ok", columns |-> excel_columns, rows |-> <<row>>] : row \in ExcelRows}

\* npf.pv(rate, nper, pmt, fv=0, when):
\*   temp = (1 + rate)**nper
\*   fact = nper if rate == 0 else (1 + rate*when)*(temp - 1)/rate
\*   return -(fv + pmt*fact)/temp
NpfPv(rate, n, payment, when) ==
    LET temp == RPow(RAdd(R(1), rate), n)
        fact == IF rate = R(0) THEN R(n)
                ELSE RDiv(RMul(RAdd(R(1), RMul(rate, R(WhenNum(when)))),
                               RSub(temp, R(1))), rate)
    IN  RDiv(RNeg(RMul(payment, fact)), temp)

\* input_schema.remove(name) if name is a column, then .append(Column(name)).
OutputSchema(columns, name) ==
    LET Other(c) == c # name
    IN  Append(SelectSeq(columns, Other), name)

\* npf.pmt(rate=df[rate_column], nper=df[nper_column], pv=df[pv_column],
\*         when=pmt_type), row by row.
PMT_Values(t, when) ==
    [r \in 1..Len(t.rows) |->
        NpfPmt(FormulaCell(t, r, "Rate"), IntTrunc(FormulaCell(t, r, "Nper")),
               FormulaCell(t, r, "PV"), when)]

\* npf.pv(rate=df[rate_column], nper=df[nper_column], pmt=df[pmt_column],
\*        when=pmt_type), row by row.
PV_Values(t, when) ==
    [r \in 1..Len(t.rows) |->
        NpfPv(FormulaCell(t, r, "Rate"), IntTrunc(FormulaCell(t, r, "Nper")),
              FormulaCell(t, r, pmt_column), when)]

\* Variant without the "+ 1": range(int(start), int(end)).
CumipmtRange_Exclusive(start, end) == IntTrunc(start)..(IntTrunc(end) - 1)

\* range(int(row[start_period_column]), int(row[end_period_column]) + 1)
CumipmtRange(start, end) == IntTrunc(start)..IntTrunc(end)

\* np.sum([...]) over the periods of a range, in ascending order; the sum of
\* no period is 0.
RECURSIVE SumIpmt(_, _, _, _, _)
SumIpmt(rate, pers, n, p, when) ==
    IF pers = {} THEN R(0)
    ELSE LET last == CHOOSE k \in pers : \A j \in pers : j <= k
         IN  RAdd(SumIpmt(rate, pers \ {last}, n, p, when),
                  NpfIpmt(rate, last, n, p, when))

\* calculate_cumipmt(row)
calculate_cumipmt(rate, n, p, start, end, when) ==
    SumIpmt(rate, CumipmtRange(start, end), n, p, when)

\* df.apply(calculate_cumipmt, axis=1)
CUMIPMT_Values(t, when) ==
    [r \in 1..Len(t.rows) |->
        calculate_cumipmt(FormulaCell(t, r, "Rate"), IntTrunc(FormulaCell(t, r, "Nper")),
                          FormulaCell(t, r, "PV"),
                          FormulaCell(t, r, start_period_column),
                          FormulaCell(t, r, end_period_column), when)]

\* configure() of the node that is next in line.
ExcelNode_Configure(n) ==
    /\ pc = "configure"
    /\ i <= Len(ExcelLoanOrder)
    /\ ExcelLoanOrder[i] = n
    /\ result' = [result EXCEPT ![n] =
                    [status |-> "configured",
                     columns |-> OutputSchema(input_table.columns, n),
                     rows |-> <<>>]]
    /\ pc' = "execute"
    /\ UNCHANGED <<node, i, loc, all_data>>
    /\ UNCHANGED config

\* execute() of the configured node: the stale result column dropped, the
\* new one assigned, the table returned.
ExcelNode_Execute(n, values) ==
    /\ pc = "execute"
    /\ ExcelLoanOrder[i] = n
    /\ result' = [result EXCEPT ![n] = AssignColumn(DropColumn(input_table, n), n, values)]
    /\ pc' = "configure"
    /\ i' = i + 1
    /\ UNCHANGED <<node, loc, all_data>>
    /\ UNCHANGED config

PMT_Configure == ExcelNode_Configure("PMT")

PMT_Run == ExcelNode_Execute("PMT", PMT_Values(DropColumn(input_table, "PMT"), pmt_type))

IPMT_Configure == ExcelNode_Configure("IPMT")

IPMT_Run == ExcelNode_Execute("IPMT", IPMT_Values(DropColumn(input_table, "IPMT"), pmt_type))

PPMT_Configure == ExcelNode_Configure("PPMT")

PPMT_Run == ExcelNode_Execute("PPMT", PPMT_Values(DropColumn(input_table, "PPMT"), pmt_type))

PV_Configure == ExcelNode_Configure("PV")

PV_Run == ExcelNode_Execute("PV", PV_Values(DropColumn(input_table, "PV"), pmt_type))

CUMIPMT_Configure == ExcelNode_Configure("CUMIPMT")

CUMIPMT_Run ==
    ExcelNode_Execute("CUMIPMT", CUMIPMT_Values(DropColumn(input_table, "CUMIPMT"), pmt_type))

\* The output table of one of the nodes becomes the input table of a second
\* round of the five nodes; node records whose output it is.
FeedBack ==
    /\ pc = "configure"
    /\ i > Len(ExcelLoanOrder)
    /\ node = "none"
    /\ \E n \in ExcelLoanNodes :
          /\ result[n].status = "ok"
          /\ input_table' = result[n]
          /\ node' = n
    /\ i' = 1
    /\ result' = [n \in AllNodes |-> NoTable]
    /\ UNCHANGED <<frequency, interest_type, pmt_type, df, opts, table_m, table_b,
                    pc, loc, all_data>>

ExcelInit ==
    /\ frequency = "MONTHLY"
    /\ interest_type = "COMPOUND"
    /\ pmt_type \in BOOLEAN
    /\ df = <<>>
    /\ input_table \in ExcelTables
    /\ opts = NoOpts
    /\ table_m = NoTable
    /\ table_b = NoTable
    /\ node = "none"
    /\ pc = "configure"
    /\ i = 1
    /\ loc = NoLocals
    /\ all_data = <<>>
    /\ result = [n \in AllNodes |-> NoTable]

ExcelNext ==
    \/ PMT_Configure
    \/ PMT_Run
    \/ IPMT_Configure
    \/ IPMT_Run
    \/ PPMT_Configure
    \/ PPMT_Run
    \/ PV_Configure
    \/ PV_Run
    \/ CUMIPMT_Configure
    \/ CUMIPMT_Run
    \/ FeedBack

ExcelSpec == ExcelInit /\ [][ExcelNext]_vars

(***************************************************************************)
(* Reading the tables of the single-value nodes.                           *)
(***************************************************************************)
\* The five nodes have run on the current input table.
ExcelRoundOver == pc = "configure" /\ i > Len(ExcelLoanOrder)

\* IPMT(rate, per, nper, pv, timing) of input row r for period per.
RowIpmt(r, per) ==
    NpfIpmt(FormulaCell(input_table, r, "Rate"), per,
            IntTrunc(FormulaCell(input_table, r, "Nper")),
            FormulaCell(input_table, r, "PV"), pmt_type)

\* IPMT(s) + IPMT(s + 1) + ... + IPMT(e) of input row r, each period once.
RECURSIVE IpmtFromTo(_, _, _)
IpmtFromTo(r, s, e) ==
    IF s > e THEN R(0) ELSE RAdd(RowIpmt(r, s), IpmtFromTo(r, s + 1, e))

RowStart(r) == IntTrunc(FormulaCell(input_table, r, start_period_column))

RowEnd(r) == IntTrunc(FormulaCell(input_table, r, end_period_column))

\* C23: the CUMIPMT node's value for a row is the sum of IPMT(rate, per,
\* nper, pv, timing) over the periods per = start, ..., end, each counted
\* once; for start = end it is that one period's IPMT, the value the IPMT
\* node gives for the same row when its period column holds that period.
C23_CumipmtIsSumOfIpmt ==
    ExcelRoundOver /\ Returned("CUMIPMT") =>
        \A r \in 1..NumRows("CUMIPMT") :
            /\ Col("CUMIPMT", r, "CUMIPMT") = IpmtFromTo(r, RowStart(r), RowEnd(r))
            /\ RowStart(r) = RowEnd(r) =>
                  Col("CUMIPMT", r, "CUMIPMT") = RowIpmt(r, RowStart(r))
            /\ /\ RowStart(r) = RowEnd(r)
               /\ RowStart(r) = IntTrunc(FormulaCell(input_table, r, per_column))
               => Col("CUMIPMT", r, "CUMIPMT") = Col("IPMT", r, "IPMT")

C23_Witness ==
    /\ ExcelRoundOver
    /\ Returned("CUMIPMT")
    /\ RowStart(1) = 2
    /\ RowEnd(1) = 3
    /\ IntTrunc(FormulaCell(input_table, 1, "Nper")) = 3
    /\ RowIpmt(1, 2) # R(0)
    /\ RowIpmt(1, 3) # R(0)
    /\ Col("CUMIPMT", 1, "CUMIPMT") = RAdd(RowIpmt(1, 2), RowIpmt(1, 3))

\* The column list without the columns called name, order kept.
RECURSIVE WithoutName(_, _)
WithoutName(columns, name) ==
    IF columns = <<>> THEN <<>>
    ELSE (IF Head(columns) = name THEN <<>> ELSE <<Head(columns)>>)
             \o WithoutName(Tail(columns), name)

\* C24: each single-value node (PMT, IPMT, PPMT, PV, CUMIPMT) outputs the
\* input columns minus a pre-existing column of the result's name, values
\* unchanged, followed by the one result column, last; the schema configure()
\* announces is the column list execute() returns; a node fed its own output
\* returns the same column list, the stale result column replaced, never
\* duplicated.
C24_OneResultColumnLast ==
    \A n \in ExcelLoanNodes :
        LET expected == Append(WithoutName(input_table.columns, n), n)
        IN  /\ result[n].status = "configured" => result[n].columns = expected
            /\ Returned(n) =>
                  /\ result[n].columns = expected
                  /\ result[n].columns[Len(result[n].columns)] = n
                  /\ Cardinality({c \in 1..Len(result[n].columns) :
                                     result[n].columns[c] = n}) = 1
                  /\ NumRows(n) = Len(input_table.rows)
                  /\ \A r \in 1..NumRows(n) :
                        /\ Len(result[n].rows[r]) = Len(result[n].columns)
                        /\ \A c \in 1..Len(input_table.columns) :
                              input_table.columns[c] # n =>
                                  Col(n, r, input_table.columns[c]) = input_table.rows[r][c]
                  /\ node = n => result[n].columns = input_table.columns

C24_Witness ==
    /\ ExcelRoundOver
    /\ node = "PMT"
    /\ \A n \in ExcelLoanNodes : Returned(n)
    /\ input_table.columns = <<"Rate", "Per", "Nper", "PV", "Start", "End", "PMT">>
    /\ result["PMT"].columns = input_table.columns
    /\ result["PV"].columns = <<"Rate", "Per", "Nper", "Start", "End", "PMT", "PV">>
    /\ result["CUMIPMT"].columns = Append(input_table.columns, "CUMIPMT")


\* ---------------------------------------------------------------------------
\* nodes/matrixOps: the Matrix x Matrix, Matrix x Column Vector, Matrix x Row
\* Vector and Matrix x Scalar nodes.  A table carries the pandas dtype of each
\* column beside its name; float64 and int64 columns are numeric, object
\* columns are not.  A missing numeric cell is NaN, a missing object cell is
\* Missing.
\* ---------------------------------------------------------------------------

Missing == "<missing>"

Operations == {"ADDITION", "SUBTRACTION", "MULTIPLICATION", "DIVISION"}

vector_column == "u"

DtypeOf(name) == IF name = "label" THEN "object" ELSE IF name = "y" THEN "int64" ELSE "float64"

MakeTable(columns, rows) ==
    [status |-> "ok", columns |-> columns,
     dtypes |-> [c \in 1..Len(columns) |-> DtypeOf(columns[c])], rows |-> rows]

MatrixLayouts ==
    {<<"x">>, <<"label">>, <<"x", "y">>, <<"label", "x">>, <<"x", "label">>,
     <<"x", "label", "y">>}

OperandLayouts == {<<"u">>, <<"u", "v">>}

\* The tables of one or two rows over the layouts: the first row's cells are
\* drawn from firstRows, the second row is secondRow.
TablesOver(layouts, firstRows, secondRow) ==
    LET RowOf(layout, cells) == [c \in 1..Len(layout) |-> cells[layout[c]]]
    IN  {MakeTable(layout, IF k = 1 THEN <<RowOf(layout, first)>>
                           ELSE <<RowOf(layout, first), RowOf(layout, secondRow)>>) :
            layout \in layouts, first \in firstRows, k \in RowCounts}

MatrixTables ==
    TablesOver(MatrixLayouts, [x : {NaN, R(2)}, label : {"a", Missing}, y : {R(1)}],
               [x |-> R(4), label |-> "b", y |-> R(3)])

OperandTables ==
    TablesOver(OperandLayouts, [u : {NaN, R(0), R(2)}, v : {R(1)}],
               [u |-> R(1), v |-> R(2)])

MatrixOptions ==
    [operation : Operations, handle_missing : BOOLEAN, vector_column : {vector_column}]

\* dtype in ['int32', 'int64', 'float64'] (and the same three ktypes in configure).
IsNumeric(dtype) == dtype \in {"int32", "int64", "float64"}

\* The positions of the numeric columns of t, in column order.
numeric_cols(t) ==
    LET Numeric(c) == IsNumeric(t.dtypes[c])
    IN  SelectSeq([c \in 1..Len(t.columns) |-> c], Numeric)

\* DataFrame.fillna(0): a missing cell becomes 0 whatever the column's dtype.
fillna(t) ==
    [t EXCEPT !.rows =
        [r \in 1..Len(t.rows) |->
            [c \in 1..Len(t.columns) |->
                IF IsNumeric(t.dtypes[c])
                THEN IF IsNaN(t.rows[r][c]) THEN R(0) ELSE t.rows[r][c]
                ELSE IF t.rows[r][c] = Missing THEN "0" ELSE t.rows[r][c]]]]

func(operation, x, y) ==
    CASE operation = "ADDITION" -> RAdd(x, y)
      [] operation = "SUBTRACTION" -> RSub(x, y)
      [] operation = "MULTIPLICATION" -> RMul(x, y)
      [] operation = "DIVISION" -> RDiv(x, y)

\* The output schema: the matrix's columns in their order, numeric ones as double.
MatrixOutputSchema(t) ==
    [status |-> "configured", columns |-> t.columns,
     dtypes |-> [c \in 1..Len(t.columns) |->
                    IF IsNumeric(t.dtypes[c]) THEN "float64" ELSE t.dtypes[c]],
     rows |-> <<>>]

\* result = df_m.copy(); result[col] = func(df_m[col], operand) for the k-th
\* numeric column col, operands[r, k] being the operand of row r there.
ApplyToNumeric(m, operation, operands) ==
    LET cols == numeric_cols(m)
        Position(c) == CHOOSE k \in 1..Len(cols) : cols[k] = c
    IN  [status |-> "ok", columns |-> m.columns,
         dtypes |-> MatrixOutputSchema(m).dtypes,
         rows |-> [r \in 1..Len(m.rows) |->
                      [c \in 1..Len(m.columns) |->
                          IF IsNumeric(m.dtypes[c])
                          THEN func(operation, m.rows[r][c], operands[r, Position(c)])
                          ELSE m.rows[r][c]]]]

SameNumericCount(a, b) == Len(numeric_cols(a)) = Len(numeric_cols(b))

SameRowCount(a, b) == Len(a.rows) = Len(b.rows)

VectorFits(vec, m) == Len(vec) = Len(m.rows)

\* len(df_r) >= 1 in place of len(df_r) != 1.
ExactlyOneRow_AtLeastOne(r) == Len(r.rows) >= 1

ExactlyOneRow(r) == Len(r.rows) = 1

MatrixMatrix_ConfigureRaises(a, b) ==
    \/ Len(numeric_cols(a)) = 0
    \/ Len(numeric_cols(b)) = 0
    \/ ~SameNumericCount(a, b)

MatrixMatrix_ExecuteRaises(a, b) == ~SameNumericCount(a, b) \/ ~SameRowCount(a, b)

MatrixMatrix_Result(a, b, o) ==
    LET df_a == IF o.handle_missing THEN fillna(a) ELSE a
        df_b == IF o.handle_missing THEN fillna(b) ELSE b
        operands == [r \in 1..Len(a.rows), k \in 1..Len(numeric_cols(a)) |->
                        df_b.rows[r][numeric_cols(b)[k]]]
    IN  ApplyToNumeric(df_a, o.operation, operands)

MatrixColumnVector_ConfigureRaises(m, o) ==
    Len(numeric_cols(m)) = 0 \/ o.vector_column = ""

\* vec = df_v[vector_column], after fillna(0) when handle_missing is set.
VectorValues(v, o) ==
    LET c == CHOOSE k \in 1..Len(v.columns) : v.columns[k] = o.vector_column
        df_v == IF o.handle_missing THEN fillna(v) ELSE v
    IN  [r \in 1..Len(v.rows) |-> df_v.rows[r][c]]

MatrixColumnVector_ExecuteRaises(m, v, o) == ~VectorFits(VectorValues(v, o), m)

MatrixColumnVector_Result(m, v, o) ==
    LET df_m == IF o.handle_missing THEN fillna(m) ELSE m
        vec == VectorValues(v, o)
        operands == [r \in 1..Len(m.rows), k \in 1..Len(numeric_cols(m)) |-> vec[r]]
    IN  ApplyToNumeric(df_m, o.operation, operands)

MatrixRowVector_ConfigureRaises(m, r) ==
    \/ Len(numeric_cols(m)) = 0
    \/ Len(numeric_cols(r)) = 0
    \/ ~SameNumericCount(m, r)

MatrixRowVector_ExecuteRaises(m, r) == ~ExactlyOneRow(r) \/ ~SameNumericCount(m, r)

MatrixRowVector_Result(m, rv, o) ==
    LET df_m == IF o.handle_missing THEN fillna(m) ELSE m
        df_r == IF o.handle_missing THEN fillna(rv) ELSE rv
        operands == [r \in 1..Len(m.rows), k \in 1..Len(numeric_cols(m)) |->
                        df_r.rows[1][numeric_cols(rv)[k]]]
    IN  ApplyToNumeric(df_m, o.operation, operands)

MatrixScalar_ConfigureRaises(m, s) ==
    Len(numeric_cols(m)) = 0 \/ Len(s.columns) # 1

MatrixScalar_Result(m, s, o) ==
    LET first == s.rows[1][1]
        scalar == IF o.handle_missing /\ IsNaN(first) THEN R(0) ELSE first
        df_m == IF o.handle_missing THEN fillna(m) ELSE m
        operands == [r \in 1..Len(m.rows), k \in 1..Len(numeric_cols(m)) |-> scalar]
    IN  ApplyToNumeric(df_m, o.operation, operands)

\* configure of the i-th matrix node: a ValueError ends the node, otherwise the
\* output schema is announced and execute follows.
MatrixNode_Configure(n, raises) ==
    /\ pc = "configure"
    /\ i <= Len(MatrixNodeOrder)
    /\ MatrixNodeOrder[i] = n
    /\ IF raises
       THEN /\ result' = [result EXCEPT ![n] = Raised("ValueError")]
            /\ i' = i + 1
            /\ pc' = "configure"
       ELSE /\ result' = [result EXCEPT ![n] = MatrixOutputSchema(table_m)]
            /\ i' = i
            /\ pc' = "execute"
    /\ UNCHANGED <<config, node, loc, all_data>>

MatrixNode_Execute(n, raises, table) ==
    /\ pc = "execute"
    /\ i <= Len(MatrixNodeOrder)
    /\ MatrixNodeOrder[i] = n
    /\ result' = [result EXCEPT ![n] = IF raises THEN Raised("ValueError") ELSE table]
    /\ i' = i + 1
    /\ pc' = "configure"
    /\ UNCHANGED <<config, node, loc, all_data>>

MatrixMatrix_Configure ==
    MatrixNode_Configure("MatrixMatrix", MatrixMatrix_ConfigureRaises(table_m, table_b))

MatrixMatrix_Execute ==
    MatrixNode_Execute("MatrixMatrix", MatrixMatrix_ExecuteRaises(table_m, table_b),
                       MatrixMatrix_Result(table_m, table_b, opts))

MatrixColumnVector_Configure ==
    MatrixNode_Configure("MatrixColumnVector",
                         MatrixColumnVector_ConfigureRaises(table_m, opts))

MatrixColumnVector_Execute ==
    MatrixNode_Execute("MatrixColumnVector",
                       MatrixColumnVector_ExecuteRaises(table_m, table_b, opts),
                       MatrixColumnVector_Result(table_m, table_b, opts))

MatrixRowVector_Configure ==
    MatrixNode_Configure("MatrixRowVector", MatrixRowVector_ConfigureRaises(table_m, table_b))

MatrixRowVector_Execute ==
    MatrixNode_Execute("MatrixRowVector", MatrixRowVector_ExecuteRaises(table_m, table_b),
                       MatrixRowVector_Result(table_m, table_b, opts))

MatrixScalar_Configure ==
    MatrixNode_Configure("MatrixScalar", MatrixScalar_ConfigureRaises(table_m, table_b))

MatrixScalar_Execute ==
    MatrixNode_Execute("MatrixScalar", FALSE, MatrixScalar_Result(table_m, table_b, opts))

MatrixInit ==
    /\ frequency = "MONTHLY"
    /\ interest_type = "SIMPLE"
    /\ pmt_type = FALSE
    /\ df = <<>>
    /\ input_table = NoTable
    /\ opts \in MatrixOptions
    /\ table_m \in MatrixTables
    /\ table_b \in OperandTables
    /\ node = "none"
    /\ pc = "configure"
    /\ i = 1
    /\ loc = NoLocals
    /\ all_data = <<>>
    /\ result = [n \in AllNodes |-> NoTable]

MatrixNext ==
    \/ MatrixMatrix_Configure
    \/ MatrixMatrix_Execute
    \/ MatrixColumnVector_Configure
    \/ MatrixColumnVector_Execute
    \/ MatrixRowVector_Configure
    \/ MatrixRowVector_Execute
    \/ MatrixScalar_Configure
    \/ MatrixScalar_Execute

MatrixSpec == MatrixInit /\ [][MatrixNext]_vars


\* ---------------------------------------------------------------------------
\* Properties of the matrix nodes (MatrixSpec).
\* ---------------------------------------------------------------------------

MatrixFinished(n) == result[n].status \notin {"none", "configured"}

NumericCount(t) ==
    Cardinality({c \in 1..Len(t.columns) : t.dtypes[c] \in {"int32", "int64", "float64"}})

Rejected(n) == result[n] = [status |-> "ValueError", columns |-> <<>>, rows |-> <<>>]

\* C25: a matrix node that has run on dimensionally incompatible inputs has
\* raised ValueError and left no result table: Matrix x Matrix when the row
\* counts or the numeric-column counts differ, Matrix x Column Vector when the
\* vector's length is not the matrix's row count, Matrix x Row Vector when the
\* row vector has not exactly one row or its numeric-column count differs.
C25_IncompatibleDimensionsRejected ==
    /\ /\ MatrixFinished("MatrixMatrix")
       /\ \/ Len(table_m.rows) # Len(table_b.rows)
          \/ NumericCount(table_m) # NumericCount(table_b)
       => Rejected("MatrixMatrix")
    /\ /\ MatrixFinished("MatrixColumnVector")
       /\ Len(table_b.rows) # Len(table_m.rows)
       => Rejected("MatrixColumnVector")
    /\ /\ MatrixFinished("MatrixRowVector")
       /\ \/ Len(table_b.rows) # 1
          \/ NumericCount(table_b) # NumericCount(table_m)
       => Rejected("MatrixRowVector")

\* A two-row matrix with one numeric column met a one-row, two-column operand:
\* all three nodes have run and rejected it.
C25_Witness ==
    /\ Len(table_m.rows) = 2
    /\ NumericCount(table_m) = 1
    /\ Len(table_b.rows) = 1
    /\ NumericCount(table_b) = 2
    /\ Rejected("MatrixMatrix")
    /\ Rejected("MatrixColumnVector")
    /\ Rejected("MatrixRowVector")

NonNumericNames(t) ==
    LET NonNumeric(name) ==
            \E c \in 1..Len(t.columns) :
                t.columns[c] = name /\ t.dtypes[c] \notin {"int32", "int64", "float64"}
    IN  SelectSeq(t.columns, NonNumeric)

NumericNames(t) ==
    LET Numeric(name) ==
            \E c \in 1..Len(t.columns) :
                t.columns[c] = name /\ t.dtypes[c] \in {"int32", "int64", "float64"}
    IN  SelectSeq(t.columns, Numeric)

ColumnValues(t, name) ==
    LET c == CHOOSE k \in 1..Len(t.columns) : t.columns[k] = name
    IN  [r \in 1..Len(t.rows) |-> t.rows[r][c]]

\* C26: in the table a matrix node returns, the matrix input's non-numeric
\* columns come first, with their values unchanged, followed by the result
\* columns under the matrix input's numeric column names.
C26_NonNumericColumnsFirstUnchanged ==
    \A n \in MatrixNodes :
        result[n].status = "ok" =>
            /\ result[n].columns = NonNumericNames(table_m) \o NumericNames(table_m)
            /\ \A k \in 1..Len(NonNumericNames(table_m)) :
                   ColumnValues(result[n], NonNumericNames(table_m)[k])
                       = ColumnValues(table_m, NonNumericNames(table_m)[k])


\* C27: in the full breakdown of a loan with present_value > 0 and rate >= 0,
\* every record's cumulative principal paid and remaining balance add up to
\* the present value.
C27_PrincipalConservation ==
    RunOver /\ Returned("OpenPPMT") =>
        \A r \in 1..NumRows("OpenPPMT") :
            WellFormedRow("OpenPPMT", r) =>
                RAdd(Col("OpenPPMT", r, "Cumulative_Principal_Paid"),
                     Col("OpenPPMT", r, "Remaining_Balance")) = RowPv("OpenPPMT", r)

\* A record before the last of a three-period loan at a positive rate: part of
\* the principal is paid, part is still owed.
C27_Witness ==
    /\ RunOver
    /\ Returned("OpenPPMT")
    /\ \E r \in 1..NumRows("OpenPPMT") :
          /\ WellFormedRow("OpenPPMT", r)
          /\ RowTerm("OpenPPMT", r) = 3
          /\ Col("OpenPPMT", r, "Period") = 2
          /\ RLt(R(0), Col("OpenPPMT", r, rate_column))
          /\ RLt(R(0), Col("OpenPPMT", r, "Cumulative_Principal_Paid"))
          /\ RLt(R(0), Col("OpenPPMT", r, "Remaining_Balance"))


\* C28: for a loan with present_value > 0 and rate >= 0, the cumulative
\* interest the CUMIPMT Schedule node emits at period k is the value the
\* CUMIPMT node computes from the same periodic rate, term, present value and
\* timing with start period 1 and end period k.
C28_ScheduleMatchesCumipmtNode ==
    RunOver /\ Returned("CUMIPMT") =>
        \A r \in 1..NumRows("CUMIPMT") :
            WellFormedRow("CUMIPMT", r) =>
                LET row == InputValues(result["CUMIPMT"].rows[r])
                IN  Col("CUMIPMT", r, "Cumulative_Interest_Paid")
                        = calculate_cumipmt(OwnRate(row), TermPeriods(row), OwnPv(row),
                                            R(1), R(Col("CUMIPMT", r, "Period")), pmt_type)

\* The second record of a loan at a positive rate paid in arrears: interest of
\* two periods has accumulated.
C28_Witness ==
    /\ RunOver
    /\ Returned("CUMIPMT")
    /\ ~pmt_type
    /\ \E r \in 1..(NumRows("CUMIPMT") - 1) :
          /\ WellFormedRow("CUMIPMT", r + 1)
          /\ Col("CUMIPMT", r + 1, "Period") = 2
          /\ RLt(Col("CUMIPMT", r + 1, "Cumulative_Interest_Paid"),
                 Col("CUMIPMT", r, "Cumulative_Interest_Paid"))
          /\ RLt(Col("CUMIPMT", r, "Cumulative_Interest_Paid"), R(0))


\* C29: each schedule node is all-or-nothing over its batch.  The table of a
\* node is written in one step and never again: either after the last loan
\* row, holding every accumulated record, on a batch where no row failed, or
\* as the ValueError of the row being read, with no record in it, whatever
\* had been accumulated for the earlier loans.
C29_AllOrNothing ==
    [][\A n \in Nodes :
          result'[n] # result[n] =>
              /\ node = n
              /\ result[n] = NoTable
              /\ \/ /\ result'[n].status = "ok"
                    /\ i > Len(df)
                    /\ ~HasFailingRow
                    /\ Len(result'[n].rows) = Len(all_data)
                 \/ /\ i <= Len(df)
                    /\ FailingRow(df[i])
                    /\ result'[n] = [status |-> "ValueError", columns |-> <<>>,
                                     rows |-> <<>>]]_vars

\* A node is about to read a failing second loan with the three records of
\* the first loan accumulated, and the node before it has already ended on
\* the same batch with no table.
C29_Witness ==
    /\ node = "CUMIPMT"
    /\ pc = "row"
    /\ i = 2
    /\ Len(df) = 2
    /\ FailingRow(df[2])
    /\ Len(all_data) = 3
    /\ result["CUMIPMT"] = NoTable
    /\ result["OpenPPMT"].status = "ValueError"
    /\ result["OpenPPMT"].rows = <<>>


\* The integer part of a number of periods v: the integer m of the same sign
\* with |m| <= |v| < |m| + 1.
TruncatedTerm(v) ==
    CHOOSE m \in (0 - MaxNper - 1)..(MaxNper + 1) :
        IF v[1] >= 0
        THEN m * v[2] <= v[1] /\ v[1] < (m + 1) * v[2]
        ELSE (m - 1) * v[2] < v[1] /\ v[1] <= m * v[2]

RawTerm(row) == Cell(input_columns, row, nper_column)

RECURSIVE TruncatedPeriods(_, _)
TruncatedPeriods(d, k) ==
    IF k > Len(d) THEN <<>>
    ELSE SeqTo(TruncatedTerm(RawTerm(d[k]))) \o TruncatedPeriods(d, k + 1)

\* C30: each schedule node uses the number of periods truncated toward zero.
\* A loan whose number of periods is n gets the records 1..trunc(n) in every
\* view, so the four views have the same length; the breakdown's payment,
\* interest components and total interest (outstanding plus cumulative) are
\* those of a loan of trunc(n) periods.
C30_TermTruncatedTowardZero ==
    RunOver /\ (\A n \in Nodes : Returned(n)) =>
        /\ \A n \in Nodes : PeriodColumn(n) = TruncatedPeriods(df, 1)
        /\ \A n \in Nodes : NumRows(n) = NumRows("OpenPPMT")
        /\ \A r \in 1..NumRows("OpenPPMT") :
              LET row == InputValues(result["OpenPPMT"].rows[r])
                  N == TruncatedTerm(RawTerm(row))
                  pmt == NpfPmt(OwnRate(row), N, OwnPv(row), pmt_type)
              IN  /\ Col("OpenPPMT", r, "PMT") = pmt
                  /\ Col("OpenPPMT", r, "IPMT")
                        = NpfIpmt(OwnRate(row), Col("OpenPPMT", r, "Period"), N,
                                  OwnPv(row), pmt_type)
                  /\ RAdd(Col("OpenPPMT", r, "Outstanding_Interest"),
                          Col("OpenPPMT", r, "Cumulative_Interest_Paid"))
                        = RSub(RMul(RAbs(pmt), R(N)), OwnPv(row))

\* A loan of 3/2 periods at a positive rate got one record in each view,
\* beside a loan of two periods.
C30_Witness ==
    /\ RunOver
    /\ \A n \in Nodes : Returned(n) /\ NumRows(n) = 3
    /\ Len(df) = 2
    /\ RawTerm(df[1]) = <<3, 2>>
    /\ RLt(R(0), Cell(input_columns, df[1], rate_column))
    /\ RLt(R(0), OwnPv(df[1]))
    /\ RawTerm(df[2]) = R(2)
    /\ Col("OpenPPMT", 2, "Period") = 1

====
